---- MODULE Spec2Model ----
(***************************************************************************)
(* A model of the rule-based profile analyzers of the ml-service:          *)
(* BotDetector, SentimentAnalyzer, InterestExtractor and ProfileScorer.    *)
(*                                                                         *)
(* Strings are sequences of characters (one-character strings; an emoji    *)
(* code point is written as a name in angle brackets).  A Python dict is   *)
(* a function whose DOMAIN is the set of keys present, so dict.get(k, d)   *)
(* is Get(d, k, default).  Scores are exact scaled integers: the scale of  *)
(* every quantity is stated where it is defined.                           *)
(***************************************************************************)
EXTENDS Integers, Sequences, FiniteSets, TLC

\* op, input, result: the call in progress, its argument, what it returned.
\* shared: the objects more than one call can reach (the class-level tables,
\* the instance fields, the caller's profile list); the specification of
\* concurrent calls follows them, the others leave them aside.
VARIABLES op, input, result, shared

vars == <<op, input, result, shared>>

(***************************************************************************)
(* Characters and strings                                                  *)
(***************************************************************************)
LowerSeq == <<"a","b","c","d","e","f","g","h","i","j","k","l","m",
              "n","o","p","q","r","s","t","u","v","w","x","y","z">>

UpperSeq == <<"A","B","C","D","E","F","G","H","I","J","K","L","M",
              "N","O","P","Q","R","S","T","U","V","W","X","Y","Z">>

LowerLetters == {LowerSeq[i] : i \in 1..26}

UpperLetters == {UpperSeq[i] : i \in 1..26}

Digits == {"0","1","2","3","4","5","6","7","8","9"}

VowelChars == {"a","e","i","o","u"}

\* Code points above 127462 (the bio's emoji test) and the others used.
HighChars == {"<grin>", "<party>", "<sob>", "<think>"}

IsAlpha(c) == c \in LowerLetters \cup UpperLetters

IsDigit(c) == c \in Digits

\* \w of Python's re on str: letters, digits and the underscore.
IsWordChar(c) == IsAlpha(c) \/ IsDigit(c) \/ c = "_"

IsSpace(c) == c \in {" ", "\n", "\t"}

LowerChar(c) ==
    IF c \in UpperLetters
    THEN LowerSeq[CHOOSE i \in 1..26 : UpperSeq[i] = c]
    ELSE c

\* str.lower()
Lower(s) == [i \in 1..Len(s) |-> LowerChar(s[i])]

\* p occurs in s at position i
MatchAt(s, p, i) ==
    /\ i >= 1
    /\ i + Len(p) - 1 <= Len(s)
    /\ \A j \in 1..Len(p) : s[i + j - 1] = p[j]

\* `p in s` for strings
Contains(s, p) == \E i \in 1..(Len(s) + 1) : MatchAt(s, p, i)

\* number of indices of s whose character satisfies the set C
CountIn(s, C) == Cardinality({i \in 1..Len(s) : s[i] \in C})

\* dict.get(k, default)
Get(d, k, default) == IF k \in DOMAIN d THEN d[k] ELSE default

EmptyDict == [k \in {} |-> 0]

\* A dict entry whose value is None: the dict keeps the keys of such entries
\* as a set under the key NoneKeys, apart from the entries that hold a value.
\* d.get(k, default) returns None for them, never the default.
NoneKeys == "None"

IsNone(d, k) == NoneKeys \in DOMAIN d /\ k \in d[NoneKeys]

Min(a, b) == IF a <= b THEN a ELSE b

Max(a, b) == IF a >= b THEN a ELSE b

RECURSIVE SumSeq(_)
SumSeq(s) == IF s = <<>> THEN 0 ELSE Head(s) + SumSeq(Tail(s))

\* the elements of a sequence, as a set (Python's set(list))
Range(s) == {s[i] : i \in 1..Len(s)}

(***************************************************************************)
(* BotDetector (bot_detector.py).  Sub-scores are integers 0..100.         *)
(***************************************************************************)
SPAM_BIO_PHRASES == <<
    <<"f","o","l","l","o","w"," ","b","a","c","k">>,  \* follow back
    <<"f","4","f">>,  \* f4f
    <<"f","o","l","l","o","w"," ","f","o","r"," ","f","o","l","l","o","w">>,  \* follow for follow
    <<"d","m"," ","f","o","r"," ","p","r","o","m","o">>,  \* dm for promo
    <<"l","i","n","k"," ","i","n"," ","b","i","o">>,  \* link in bio
    <<"c","h","e","c","k"," ","l","i","n","k">>,  \* check link
    <<"f","r","e","e"," ","f","o","l","l","o","w","e","r","s">>,  \* free followers
    <<"g","e","t"," ","f","o","l","l","o","w","e","r","s">>,  \* get followers
    <<"g","r","o","w"," ","y","o","u","r">>,  \* grow your
    <<"m","a","k","e"," ","m","o","n","e","y">>,  \* make money
    <<"w","o","r","k"," ","f","r","o","m"," ","h","o","m","e">>,  \* work from home
    <<"e","a","r","n"," ","$">>,  \* earn $
    <<"c","l","i","c","k"," ","h","e","r","e">>,  \* click here
    <<"l","i","m","i","t","e","d"," ","t","i","m","e">>,  \* limited time
    <<"a","c","t"," ","n","o","w">>,  \* act now
    <<"s","p","e","c","i","a","l"," ","o","f","f","e","r">>  \* special offer
>>

GENERIC_BIOS == <<
    <<"j","u","s","t"," ","h","e","r","e">>,  \* just here
    <<"l","i","v","i","n","g"," ","l","i","f","e">>,  \* living life
    <<"l","o","v","e","r"," ","o","f"," ","l","i","f","e">>,  \* lover of life
    <<"f","o","l","l","o","w"," ","m","e">>,  \* follow me
    <<"e","n","t","r","e","p","r","e","n","e","u","r">>,  \* entrepreneur
    <<"i","n","f","l","u","e","n","c","e","r">>,  \* influencer
    <<"c","o","n","t","e","n","t"," ","c","r","e","a","t","o","r">>,  \* content creator
    <<"d","r","e","a","m","e","r">>  \* dreamer
>>

PROMO_PHRASES == <<
    <<"b","u","y">>,  \* buy
    <<"s","a","l","e">>,  \* sale
    <<"d","i","s","c","o","u","n","t">>,  \* discount
    <<"l","i","n","k">>,  \* link
    <<"s","h","o","p">>,  \* shop
    <<"p","r","o","m","o">>  \* promo
>>

\* the sub-score returned without the cap
ClampScore_NoCap(score) == score

\* return min(score, 100), flags
ClampScore(score) == Min(score, 100)

\* number of phrases of the table that occur in s
PhraseMatches(table, s) ==
    Cardinality({k \in 1..Len(table) : Contains(s, table[k])})

\* r'\d{6,}$'
UserPat1(u) ==
    /\ Len(u) >= 6
    /\ \A i \in (Len(u) - 5)..Len(u) : IsDigit(u[i])

\* r'^[a-z]{3,5}\d{4,}' (IGNORECASE)
UserPat2(u) ==
    \E k \in 3..5 :
        /\ Len(u) >= k + 4
        /\ \A i \in 1..k : IsAlpha(u[i])
        /\ \A i \in (k + 1)..(k + 4) : IsDigit(u[i])

\* r'bot$' (IGNORECASE)
UserPat3(u) ==
    /\ Len(u) >= 3
    /\ MatchAt(Lower(u), <<"b","o","t">>, Len(u) - 2)

\* r'^user\d+' (IGNORECASE)
UserPat4(u) ==
    /\ Len(u) >= 5
    /\ MatchAt(Lower(u), <<"u","s","e","r">>, 1)
    /\ IsDigit(u[5])

\* r'[a-z]{1,3}\d+[a-z]{1,3}\d+' (IGNORECASE), searched anywhere: a letter,
\* a run of digits, one to three letters, a digit.
UserPat5(u) ==
    \E i \in 1..Len(u) : \E j \in (i + 1)..Len(u) : \E k \in (j + 1)..(j + 3) :
        /\ k + 1 <= Len(u)
        /\ IsAlpha(u[i])
        /\ \A d \in (i + 1)..j : IsDigit(u[d])
        /\ \A l \in (j + 1)..k : IsAlpha(u[l])
        /\ IsDigit(u[k + 1])

UsernamePatternFlags(u) ==
    (IF UserPat1(u) THEN {"suspicious_username_pattern:\\d{6,}$"} ELSE {})
    \cup (IF UserPat2(u) THEN {"suspicious_username_pattern:^[a-z]{3,5}\\d{4,}"} ELSE {})
    \cup (IF UserPat3(u) THEN {"suspicious_username_pattern:bot$"} ELSE {})
    \cup (IF UserPat4(u) THEN {"suspicious_username_pattern:^user\\d+"} ELSE {})
    \cup (IF UserPat5(u) THEN {"suspicious_username_pattern:[a-z]{1,3}\\d+[a-z]{1,3}\\d+"} ELSE {})

Vowels(u) == CountIn(Lower(u), VowelChars)

Consonants(u) == CountIn(Lower(u), LowerLetters \ VowelChars)

\* consonants > 0 and vowels / max(consonants, 1) < 0.1
UnusualDistribution(u) ==
    /\ Consonants(u) > 0
    /\ 10 * Vowels(u) < Max(Consonants(u), 1)

analyze_username(u) ==
    IF u = <<>> THEN [score |-> 50, flags |-> {}]
    ELSE
      LET pat    == UsernamePatternFlags(u)
          short  == Len(u) < 3
          long   == ~short /\ Len(u) > 25
          noalpha == \A i \in 1..Len(u) : ~IsAlpha(u[i])
          odd    == UnusualDistribution(u)
          score  == 25 * Cardinality(pat)
                    + (IF short THEN 20 ELSE 0)
                    + (IF long THEN 10 ELSE 0)
                    + (IF noalpha THEN 30 ELSE 0)
                    + (IF odd THEN 15 ELSE 0)
      IN [score |-> ClampScore(score),
          flags |-> pat
                    \cup (IF short THEN {"very_short_username"} ELSE {})
                    \cup (IF long THEN {"very_long_username"} ELSE {})
                    \cup (IF noalpha THEN {"no_letters_in_username"} ELSE {})
                    \cup (IF odd THEN {"unusual_character_distribution"} ELSE {})]

\* the decimal numeral of a small count, for f"spam_phrases:{n}"
CountFlag(n) ==
    <<"spam_phrases:0", "spam_phrases:1", "spam_phrases:2", "spam_phrases:3",
      "spam_phrases:4", "spam_phrases:5", "spam_phrases:6", "spam_phrases:7",
      "spam_phrases:8", "spam_phrases:9", "spam_phrases:10", "spam_phrases:11",
      "spam_phrases:12", "spam_phrases:13", "spam_phrases:14", "spam_phrases:15",
      "spam_phrases:16">>[n + 1]

\* len(re.findall(r'https?://', bio))
UrlCount(bio) ==
    Cardinality({i \in 1..Len(bio) :
        \/ MatchAt(bio, <<"h","t","t","p",":","/","/">>, i)
        \/ MatchAt(bio, <<"h","t","t","p","s",":","/","/">>, i)})

\* the empty bio going through the rules like any other bio
analyze_bio_NoEmptyCase(bio) ==
    LET spam    == PhraseMatches(SPAM_BIO_PHRASES, Lower(bio))
        generic == PhraseMatches(GENERIC_BIOS, Lower(bio))
        emojis  == CountIn(bio, HighChars) > 10
        hashes  == CountIn(bio, {"#"}) > 5
        urls    == UrlCount(bio) > 2
        short   == Len(bio) < 10
        score   == 20 * spam + 10 * generic
                   + (IF emojis THEN 15 ELSE 0)
                   + (IF hashes THEN 20 ELSE 0)
                   + (IF urls THEN 25 ELSE 0)
                   + (IF short THEN 15 ELSE 0)
    IN [score |-> ClampScore(score),
        flags |-> (IF spam > 0 THEN {CountFlag(spam)} ELSE {})
                  \cup (IF generic > 0 THEN {"generic_bio"} ELSE {})
                  \cup (IF emojis THEN {"excessive_emojis"} ELSE {})
                  \cup (IF hashes THEN {"excessive_hashtags"} ELSE {})
                  \cup (IF urls THEN {"multiple_urls"} ELSE {})
                  \cup (IF short THEN {"very_short_bio"} ELSE {})]

analyze_bio(bio) ==
    IF bio = <<>> THEN [score |-> 30, flags |-> {"no_bio"}]
    ELSE
      LET spam    == PhraseMatches(SPAM_BIO_PHRASES, Lower(bio))
          generic == PhraseMatches(GENERIC_BIOS, Lower(bio))
          emojis  == CountIn(bio, HighChars) > 10
          hashes  == CountIn(bio, {"#"}) > 5
          urls    == UrlCount(bio) > 2
          short   == Len(bio) < 10
          score   == 20 * spam + 10 * generic
                     + (IF emojis THEN 15 ELSE 0)
                     + (IF hashes THEN 20 ELSE 0)
                     + (IF urls THEN 25 ELSE 0)
                     + (IF short THEN 15 ELSE 0)
      IN [score |-> ClampScore(score),
          flags |-> (IF spam > 0 THEN {CountFlag(spam)} ELSE {})
                    \cup (IF generic > 0 THEN {"generic_bio"} ELSE {})
                    \cup (IF emojis THEN {"excessive_emojis"} ELSE {})
                    \cup (IF hashes THEN {"excessive_hashtags"} ELSE {})
                    \cup (IF urls THEN {"multiple_urls"} ELSE {})
                    \cup (IF short THEN {"very_short_bio"} ELSE {})]

\* verified adding its own increment and flag instead of returning at once
analyze_metrics_VerifiedAsFlag(metadata) ==
    LET followers   == Get(metadata, "followers", 0)
        following   == Get(metadata, "following", 0)
        posts_count == Get(metadata, "posts_count", 0)
        verified    == Get(metadata, "verified", FALSE)
        \* ratio = followers / following, compared without dividing
        lowRatio  == following > 0 /\ 100 * followers < following
        highRatio == /\ following > 0
                     /\ ~lowRatio
                     /\ followers > 100 * following
                     /\ followers > 10000
        unreal    == followers > 1000000 /\ posts_count < 10
        mass      == following > 5000
        active    == posts_count > 100 /\ followers < 10
        bought    == posts_count = 0 /\ followers > 100
        \* None compared with an int: TypeError
        missing   == \E k \in {"followers", "following", "posts_count"} :
                         IsNone(metadata, k)
        score     == (IF lowRatio THEN 40 ELSE 0)
                     + (IF highRatio THEN 10 ELSE 0)
                     + (IF unreal THEN 50 ELSE 0)
                     + (IF mass THEN 25 ELSE 0)
                     + (IF active THEN 30 ELSE 0)
                     + (IF bought THEN 35 ELSE 0)
    IN [raised |-> missing,
        score |-> ClampScore(score + (IF verified THEN 5 ELSE 0)),
        flags |-> (IF verified THEN {"verified_account"} ELSE {})
                  \cup (IF lowRatio THEN {"suspicious_follower_ratio"} ELSE {})
                  \cup (IF highRatio THEN {"extremely_high_follower_ratio"} ELSE {})
                  \cup (IF unreal THEN {"unrealistic_followers_to_posts"} ELSE {})
                  \cup (IF mass THEN {"mass_following"} ELSE {})
                  \cup (IF active THEN {"high_activity_low_followers"} ELSE {})
                  \cup (IF bought THEN {"no_posts_many_followers"} ELSE {})]

analyze_metrics(metadata) ==
    LET followers   == Get(metadata, "followers", 0)
        following   == Get(metadata, "following", 0)
        posts_count == Get(metadata, "posts_count", 0)
        verified    == Get(metadata, "verified", FALSE)
        \* ratio = followers / following, compared without dividing
        lowRatio  == following > 0 /\ 100 * followers < following
        highRatio == /\ following > 0
                     /\ ~lowRatio
                     /\ followers > 100 * following
                     /\ followers > 10000
        unreal    == followers > 1000000 /\ posts_count < 10
        mass      == following > 5000
        active    == posts_count > 100 /\ followers < 10
        bought    == posts_count = 0 /\ followers > 100
        \* None compared with an int: TypeError
        missing   == \E k \in {"followers", "following", "posts_count"} :
                         IsNone(metadata, k)
        score     == (IF lowRatio THEN 40 ELSE 0)
                     + (IF highRatio THEN 10 ELSE 0)
                     + (IF unreal THEN 50 ELSE 0)
                     + (IF mass THEN 25 ELSE 0)
                     + (IF active THEN 30 ELSE 0)
                     + (IF bought THEN 35 ELSE 0)
    IN IF verified THEN [raised |-> FALSE, score |-> 5, flags |-> {"verified_account"}]
       ELSE [raised |-> missing,
             score |-> ClampScore(score),
             flags |-> (IF lowRatio THEN {"suspicious_follower_ratio"} ELSE {})
                       \cup (IF highRatio THEN {"extremely_high_follower_ratio"} ELSE {})
                       \cup (IF unreal THEN {"unrealistic_followers_to_posts"} ELSE {})
                       \cup (IF mass THEN {"mass_following"} ELSE {})
                       \cup (IF active THEN {"high_activity_low_followers"} ELSE {})
                       \cup (IF bought THEN {"no_posts_many_followers"} ELSE {})]

\* '#\w+' occurrences (re.findall) in one content: each starts at a '#'
\* followed by a word character that is not inside an earlier match; a '#'
\* is no word character, so every such '#' starts a match.
RECURSIVE WordRunEnd(_, _)
WordRunEnd(s, i) ==
    IF i + 1 <= Len(s) /\ IsWordChar(s[i + 1]) THEN WordRunEnd(s, i + 1) ELSE i

Hashtags(s) ==
    [k \in {i \in 1..Len(s) : s[i] = "#" /\ i + 1 <= Len(s) /\ IsWordChar(s[i + 1])}
        |-> SubSeq(s, k, WordRunEnd(s, k))]

\* the matches of all contents: how many, and the distinct ones
HashtagTotal(contents) ==
    SumSeq([c \in 1..Len(contents) |-> Cardinality(DOMAIN Hashtags(contents[c]))])

HashtagUnique(contents) ==
    UNION {{Hashtags(contents[c])[k] : k \in DOMAIN Hashtags(contents[c])}
              : c \in 1..Len(contents)}

IsPromo(c) == \E k \in 1..Len(PROMO_PHRASES) : Contains(Lower(c), PROMO_PHRASES[k])

\* [p.get("content", "") for p in posts if p.get("content")]
PostContents(posts) ==
    SelectSeq([i \in 1..Len(posts) |-> Get(posts[i], "content", <<>>)],
              LAMBDA c : c # <<>>)

analyze_content(posts) ==
    IF posts = <<>> THEN [score |-> 30, flags |-> {"no_posts"}]
    ELSE
      LET contents == PostContents(posts)
          n        == Len(contents)
          dup      == 2 * Cardinality(Range(contents)) < n
          tags     == HashtagTotal(contents)
          rep      == tags > 0 /\ tags > 5 * Cardinality(HashtagUnique(contents))
          short    == SumSeq([i \in 1..n |-> Len(contents[i])]) < 20 * n
          promo    == 2 * Cardinality({i \in 1..n : IsPromo(contents[i])}) > n
          score    == (IF dup THEN 40 ELSE 0)
                      + (IF rep THEN 25 ELSE 0)
                      + (IF short THEN 20 ELSE 0)
                      + (IF promo THEN 35 ELSE 0)
      IN IF n = 0 THEN [score |-> 30, flags |-> {"empty_posts"}]
         ELSE [score |-> ClampScore(score),
               flags |-> (IF dup THEN {"high_content_duplication"} ELSE {})
                         \cup (IF rep THEN {"repetitive_hashtags"} ELSE {})
                         \cup (IF short THEN {"very_short_posts"} ELSE {})
                         \cup (IF promo THEN {"high_promotional_content"} ELSE {})]

(***************************************************************************)
(* A timestamp is [kind, t]: kind "bad" is a string fromisoformat rejects, *)
(* "aware" one with a UTC offset ('Z' or +00:00), "naive" one without an   *)
(* offset; t is the wall-clock time in seconds.  A post without the key    *)
(* has no timestamp.                                                       *)
(***************************************************************************)
\* a post without a timestamp counted as posted at time 0
ParsedTimestamps_MissingAsZero(posts) ==
    SelectSeq([i \in 1..Len(posts) |-> Get(posts[i], "timestamp", [kind |-> "aware", t |-> 0])],
              LAMBDA ts : ts.kind \in {"aware", "naive"})

\* the datetimes the loop collects: unparsable strings are dropped
ParsedTimestamps(posts) ==
    SelectSeq([i \in 1..Len(posts) |-> Get(posts[i], "timestamp", [kind |-> "none", t |-> 0])],
              LAMBDA ts : ts.kind \in {"aware", "naive"})

\* list.sort() on datetimes raises TypeError when an offset-aware and an
\* offset-naive datetime are compared
SortRaises(timestamps) ==
    \E i, j \in 1..Len(timestamps) : timestamps[i].kind # timestamps[j].kind

RECURSIVE InsertAsc(_, _)
InsertAsc(x, s) ==
    IF s = <<>> THEN <<x>>
    ELSE IF x < Head(s) THEN <<x>> \o s
    ELSE <<Head(s)>> \o InsertAsc(x, Tail(s))

RECURSIVE SortAsc(_)
SortAsc(s) == IF s = <<>> THEN <<>> ELSE InsertAsc(s[Len(s)], SortAsc(SubSeq(s, 1, Len(s) - 1)))

RECURSIVE Gcd(_, _)
Gcd(a, b) == IF b = 0 THEN a ELSE Gcd(b, a % b)

RECURSIVE GcdSeq(_)
GcdSeq(s) == IF s = <<>> THEN 0 ELSE Gcd(Head(s), GcdSeq(Tail(s)))

\* avg_interval > 0 and std_interval / avg_interval < 0.1, with the
\* population standard deviation of numpy: var < 0.01 * avg^2, that is
\* 100 * (n * sum(x^2) - sum(x)^2) < sum(x)^2.  The ratio does not change
\* when every interval is divided by their common divisor.
RegularIntervals(intervals) ==
    LET g  == GcdSeq(intervals)
        x  == [i \in 1..Len(intervals) |-> IF g = 0 THEN 0 ELSE intervals[i] \div g]
        n  == Len(x)
        s  == SumSeq(x)
        s2 == SumSeq([i \in 1..n |-> x[i] * x[i]])
    IN s > 0 /\ 100 * (n * s2 - s * s) < s * s

analyze_temporal(posts) ==
    IF Len(posts) < 3 THEN [raised |-> FALSE, score |-> 30, flags |-> {"insufficient_temporal_data"}]
    ELSE
      LET timestamps == ParsedTimestamps(posts)
          sorted     == SortAsc([i \in 1..Len(timestamps) |-> timestamps[i].t])
          intervals  == [i \in 1..(Len(sorted) - 1) |-> sorted[i + 1] - sorted[i]]
          regular    == RegularIntervals(intervals)
          burst      == 10 * Cardinality({i \in 1..Len(intervals) : intervals[i] < 60})
                          > 3 * Len(intervals)
          hours      == {(sorted[i] \div 3600) % 24 : i \in 1..Len(sorted)}
          nosleep    == Len(sorted) > 20 /\ Cardinality(hours) > 20
          score      == (IF regular THEN 50 ELSE 0)
                        + (IF burst THEN 35 ELSE 0)
                        + (IF nosleep THEN 30 ELSE 0)
      IN IF Len(timestamps) < 3
         THEN [raised |-> FALSE, score |-> 30, flags |-> {"insufficient_temporal_data"}]
         ELSE IF SortRaises(timestamps)
         THEN [raised |-> TRUE, score |-> 0, flags |-> {}]
         ELSE [raised |-> FALSE, score |-> ClampScore(score),
               flags |-> (IF regular THEN {"suspiciously_regular_posting"} ELSE {})
                         \cup (IF burst THEN {"burst_posting_pattern"} ELSE {})
                         \cup (IF nosleep THEN {"no_sleep_pattern"} ELSE {})]

\* confidence in hundredths: min(round(confidence, 2), 1.0)
bot_calculate_confidence(profile_data) ==
    LET posts == Get(profile_data, "posts", <<>>)
        c == 50
             + (IF Get(profile_data, "bio", <<>>) # <<>> THEN 10 ELSE 0)
             + (IF DOMAIN Get(profile_data, "metadata", EmptyDict) # {} THEN 15 ELSE 0)
             + (IF Len(posts) > 10 THEN 20 ELSE IF Len(posts) > 3 THEN 10 ELSE 0)
    IN Min(c, 100)

\* round(x, 1) of x = n / 100, in tenths: Python rounds the double to the
\* nearest tenth, a tie going to the even one.  Every weighted sum of five
\* sub-scores that are multiples of 5 is n / 100 with n a multiple of 25,
\* and for all of them the double sum rounds as the exact one does.
RoundHalfEven(n, d) ==
    LET q == n \div d
        r == n % d
    IN IF 2 * r > d \/ (2 * r = d /\ q % 2 = 1) THEN q + 1 ELSE q

\* the weights, in hundredths: username, bio, metrics, content, temporal
BOT_WEIGHTS == <<15, 15, 25, 25, 20>>

\* final_score * 100
BotFinalScore(scores) == SumSeq([i \in 1..5 |-> scores[i] * BOT_WEIGHTS[i]])

\* the threshold taken as inclusive
IsBot_Inclusive(final) == final >= 5000

\* "is_bot": final_score > 50, on final_score * 100
IsBot(final) == final > 5000

\* score is in tenths, confidence in hundredths; raised is TRUE when the call
\* ends with an exception instead of a result.
BotDetector_analyze(profile_data) ==
    LET u     == analyze_username(Get(profile_data, "username", <<>>))
        b     == analyze_bio(Get(profile_data, "bio", <<>>))
        m     == analyze_metrics(Get(profile_data, "metadata", EmptyDict))
        posts == Get(profile_data, "posts", <<>>)
        c     == analyze_content(posts)
        t     == analyze_temporal(posts)
        final == BotFinalScore(<<u.score, b.score, m.score, c.score, t.score>>)
    IN IF m.raised \/ t.raised THEN [raised |-> TRUE]
       ELSE [raised     |-> FALSE,
             score      |-> RoundHalfEven(final, 10),
             is_bot     |-> IsBot(final),
             confidence |-> bot_calculate_confidence(profile_data),
             flags      |-> u.flags \cup b.flags \cup m.flags \cup c.flags \cup t.flags,
             component_scores |-> [username |-> u.score, bio |-> b.score,
                                   metrics |-> m.score, content |-> c.score,
                                   temporal |-> t.score]]

(***************************************************************************)
(* The profiles analysed.  A profile is a dict with any of the keys        *)
(* username, bio, metadata, posts.                                         *)
(***************************************************************************)
MaxUserLen == 3

MaxTimeline == 4

RECURSIVE Cat(_)
Cat(ss) == IF ss = <<>> THEN <<>> ELSE Head(ss) \o Cat(Tail(ss))

RECURSIVE Repeat(_, _)
Repeat(s, n) == IF n <= 0 THEN <<>> ELSE s \o Repeat(s, n - 1)

\* every string over the characters of C of length at most n
RECURSIVE StringsUpTo(_, _)
StringsUpTo(C, n) ==
    IF n = 0 THEN {<<>>}
    ELSE LET shorter == StringsUpTo(C, n - 1)
         IN shorter \cup {Append(s, c) : s \in shorter, c \in C}

CoreUsernames == {
    <<"a","l","i","c","e">>,
    <<"u","s","e","r","1","2","3","4","5","6","7","8","9">>}

BotUsernames ==
    StringsUpTo({"a", "x", "7"}, MaxUserLen)
    \cup CoreUsernames
    \cup {<<"b","o","t">>,
          <<"S","p","a","m","_","B","o","t">>,
          <<"a","b","1","c","d","2">>,
          <<"1","2">>,
          <<"1","2","3","4","5","6">>,
          <<"b","c","d","f","g","h","j","k","l","m","n","p">>,
          <<"a","b","c","d","1","2","3","4">>,
          <<"a","_","v","e","r","y","_","l","o","n","g","_","u","s","e","r","n","a","m","e","_","o","f","_","t","h","i","r","t","y">>,
          <<"_","_">>}

CoreBios == {
    <<"s","o","f","t","w","a","r","e"," ","e","n","g","i","n","e","e","r">>,
    SPAM_BIO_PHRASES[2]}

BotBios ==
    CoreBios
    \cup {<<>>,
          <<"h","i">>,
          <<"j","u","s","t"," ","h","e","r","e"," ","f","o","r"," ","t","h","e"," ","m","e","m","e","s">>,
          <<"F","o","l","l","o","w"," ","B","a","c","k","!"," ","D","M"," ","f","o","r"," ","p","r","o","m","o",","," ","l","i","n","k"," ","i","n"," ","b","i","o">>}
    \cup {Cat(SPAM_BIO_PHRASES),
          Repeat(<<"<grin>">>, 11),
          Repeat(<<"#","a"," ">>, 6),
          Repeat(<<"h","t","t","p","s",":","/","/","x"," ">>, 3),
          SPAM_BIO_PHRASES[1] \o <<" ">> \o GENERIC_BIOS[8]}

FollowerCounts == {0, 5, 50, 101, 20000, 1000001}

FollowingCounts == {0, 1, 5000, 5001}

PostCounts == {0, 5, 101}

FullMetadata ==
    [followers : FollowerCounts, following : FollowingCounts,
     posts_count : PostCounts, verified : BOOLEAN]

\* metadata with keys left out
PartialMetadata ==
    {EmptyDict,
     [followers |-> 101],
     [verified |-> TRUE],
     [followers |-> 5, following |-> 5001]}

CoreMetadata == {[followers |-> 5, following |-> 5001],
                 [followers |-> 101, following |-> 1, posts_count |-> 5, verified |-> TRUE]}

BotMetadata == FullMetadata \cup PartialMetadata

Post(c) == [content |-> c]

PostAt(c, kind, t) == [content |-> c, timestamp |-> [kind |-> kind, t |-> t]]

\* n posts, one every step seconds from start
Timeline(c, kind, start, step, n) ==
    [i \in 1..n |-> PostAt(c, kind, start + (i - 1) * step)]

CorePosts == {<<>>,
              <<Post(<<"h","e","l","l","o">>), Post(<<"b","i","g"," ","s","a","l","e"," ","#","d","e","a","l">>)>>}

BotPosts ==
    CorePosts
    \cup {Timeline(c, "aware", 0, step, n) :
            c \in {<<"h","e","l","l","o">>, <<"w","a","l","k","i","n","g"," ","t","h","e"," ","d","o","g"," ","i","n"," ","t","h","e"," ","p","a","r","k">>}, step \in {30, 3600}, n \in 0..MaxTimeline}
    \cup {\* irregular, one burst
          <<PostAt(<<"w","a","l","k","i","n","g"," ","t","h","e"," ","d","o","g"," ","i","n"," ","t","h","e"," ","p","a","r","k">>, "naive", 0), PostAt(<<"w","a","l","k","i","n","g"," ","t","h","e"," ","d","o","g"," ","i","n"," ","t","h","e"," ","p","a","r","k">>, "naive", 20),
            PostAt(<<"w","a","l","k","i","n","g"," ","t","h","e"," ","d","o","g"," ","i","n"," ","t","h","e"," ","p","a","r","k">>, "naive", 40), PostAt(<<"w","a","l","k","i","n","g"," ","t","h","e"," ","d","o","g"," ","i","n"," ","t","h","e"," ","p","a","r","k">>, "naive", 400),
            PostAt(<<"w","a","l","k","i","n","g"," ","t","h","e"," ","d","o","g"," ","i","n"," ","t","h","e"," ","p","a","r","k">>, "naive", 1000)>>,
          \* unparsable and missing timestamps
          <<PostAt(<<"h","e","l","l","o">>, "bad", 0), Post(<<"h","e","l","l","o">>), PostAt(<<"b","i","g"," ","s","a","l","e"," ","#","d","e","a","l">>, "aware", 10),
            PostAt(<<"b","i","g"," ","s","a","l","e"," ","#","d","e","a","l">>, "aware", 500)>>,
          \* offset-aware and offset-less timestamps in one profile
          <<PostAt(<<"w","a","l","k","i","n","g"," ","t","h","e"," ","d","o","g"," ","i","n"," ","t","h","e"," ","p","a","r","k">>, "aware", 0), PostAt(<<"w","a","l","k","i","n","g"," ","t","h","e"," ","d","o","g"," ","i","n"," ","t","h","e"," ","p","a","r","k">>, "naive", 100),
            PostAt(<<"w","a","l","k","i","n","g"," ","t","h","e"," ","d","o","g"," ","i","n"," ","t","h","e"," ","p","a","r","k">>, "aware", 7200)>>,
          \* posts without content
          <<[timestamp |-> [kind |-> "aware", t |-> 0]], [content |-> <<>>]>>,
          \* the same hashtag six times, the same content four times
          Timeline(Repeat(<<"#","a"," ">>, 6), "aware", 0, 3600, 4),
          \* round the clock
          Timeline(<<"w","a","l","k","i","n","g"," ","t","h","e"," ","d","o","g"," ","i","n"," ","t","h","e"," ","p","a","r","k">>, "aware", 0, 3660, 22),
          Timeline(<<"b","i","g"," ","s","a","l","e"," ","#","d","e","a","l">>, "aware", 0, 7, 11)}

\* a dict of the given entries restricted to the keys in keys
Restrict(d, keys) == [k \in (DOMAIN d) \cap keys |-> d[k]]

ProfileKeys == {"username", "bio", "metadata", "posts"}

\* each field in turn ranges over all its values while the others range over
\* the core ones
BotProfiles ==
    {[username |-> u, bio |-> b, metadata |-> m, posts |-> p] :
        u \in BotUsernames, b \in CoreBios, m \in CoreMetadata, p \in CorePosts}
    \cup {[username |-> u, bio |-> b, metadata |-> m, posts |-> p] :
        u \in CoreUsernames, b \in BotBios, m \in CoreMetadata, p \in CorePosts}
    \cup {[username |-> u, bio |-> b, metadata |-> m, posts |-> p] :
        u \in CoreUsernames, b \in CoreBios, m \in BotMetadata, p \in CorePosts}
    \cup {[username |-> u, bio |-> b, metadata |-> m, posts |-> p] :
        u \in CoreUsernames, b \in CoreBios, m \in CoreMetadata, p \in BotPosts}
    \cup {Restrict([username |-> <<"a","l","i","c","e">>, bio |-> <<"s","o","f","t","w","a","r","e"," ","e","n","g","i","n","e","e","r">>,
                    metadata |-> [followers |-> 101], posts |-> <<Post(<<"h","e","l","l","o">>), Post(<<"b","i","g"," ","s","a","l","e"," ","#","d","e","a","l">>)>>], keys) :
        keys \in SUBSET ProfileKeys}

(***************************************************************************)
(* The state: the call in progress (op), its argument (input) and what it  *)
(* returned (result).  Every analyzer operation is one action, taken from  *)
(* the idle state; Return hands the result back and the caller is idle     *)
(* again.                                                                  *)
(***************************************************************************)
Init ==
    /\ op = "none"
    /\ input = EmptyDict
    /\ result = EmptyDict
    /\ shared = EmptyDict

Idle == op = "none"

Return ==
    /\ ~Idle
    /\ op' = "none"
    /\ input' = EmptyDict
    /\ result' = EmptyDict
    /\ UNCHANGED shared

BotAnalyze ==
    \E p \in BotProfiles :
        /\ Idle
        /\ op' = "BotDetector.analyze"
        /\ input' = p
        /\ result' = BotDetector_analyze(p)
        /\ UNCHANGED shared

NextBot == BotAnalyze \/ Return

SpecBot == Init /\ [][NextBot]_vars

BotReturned == op = "BotDetector.analyze" /\ ~result.raised

\* C1: every result of BotDetector.analyze has its five component scores in
\* [0,100], a score that is the weighted sum 0.15/0.15/0.25/0.25/0.20 of those
\* returned components rounded to one decimal, hence in [0,100], and a
\* confidence in [0,1].
C1_BotScoreBounds ==
    BotReturned =>
        LET c == result.component_scores
        IN /\ DOMAIN c = {"username", "bio", "metrics", "content", "temporal"}
           /\ \A k \in DOMAIN c : c[k] \in 0..100
           /\ result.score = RoundHalfEven(15 * c.username + 15 * c.bio + 25 * c.metrics
                                           + 25 * c.content + 20 * c.temporal, 10)
           /\ result.score \in 0..1000
           /\ result.confidence \in 0..100

\* a bio whose increments add up to more than 100 was analysed
C1_Witness ==
    /\ BotReturned
    /\ result.component_scores.bio = 100
    /\ PhraseMatches(SPAM_BIO_PHRASES, Lower(Get(input, "bio", <<>>))) > 5

\* C4: is_bot is true exactly when the returned (rounded) score is above 50.
C4_IsBotIffScoreAbove50 ==
    BotReturned => (result.is_bot <=> result.score > 500)

\* a profile just above the threshold was analysed
C4_Witness ==
    /\ BotReturned
    /\ result.is_bot
    /\ result.score <= 520

(***************************************************************************)
(* SentimentAnalyzer (sentiment_analyzer.py).  A lexicon entry is a word   *)
(* and its value in tenths.  A signal's score is an exact fraction         *)
(* [num, den] (den > 0), or None when the signal abstains.                 *)
(***************************************************************************)
POSITIVE_WORDS == <<
    <<<<"a","m","a","z","i","n","g">>, 9>>,
    <<<<"e","x","c","e","l","l","e","n","t">>, 9>>,
    <<<<"o","u","t","s","t","a","n","d","i","n","g">>, 9>>,
    <<<<"i","n","c","r","e","d","i","b","l","e">>, 9>>,
    <<<<"f","a","n","t","a","s","t","i","c">>, 9>>,
    <<<<"w","o","n","d","e","r","f","u","l">>, 9>>,
    <<<<"b","r","i","l","l","i","a","n","t">>, 9>>,
    <<<<"e","x","c","e","p","t","i","o","n","a","l">>, 9>>,
    <<<<"g","r","e","a","t">>, 7>>,
    <<<<"g","o","o","d">>, 6>>,
    <<<<"n","i","c","e">>, 5>>,
    <<<<"h","a","p","p","y">>, 7>>,
    <<<<"l","o","v","e">>, 8>>,
    <<<<"a","w","e","s","o","m","e">>, 8>>,
    <<<<"b","e","a","u","t","i","f","u","l">>, 7>>,
    <<<<"p","e","r","f","e","c","t">>, 9>>,
    <<<<"b","e","s","t">>, 8>>,
    <<<<"e","x","c","i","t","e","d">>, 7>>,
    <<<<"g","r","a","t","e","f","u","l">>, 7>>,
    <<<<"b","l","e","s","s","e","d">>, 6>>,
    <<<<"t","h","r","i","l","l","e","d">>, 8>>,
    <<<<"e","n","j","o","y">>, 6>>,
    <<<<"a","p","p","r","e","c","i","a","t","e">>, 6>>,
    <<<<"t","h","a","n","k","f","u","l">>, 7>>,
    <<<<"p","r","o","u","d">>, 7>>,
    <<<<"s","u","c","c","e","s","s","f","u","l">>, 7>>,
    <<<<"p","o","s","i","t","i","v","e">>, 6>>,
    <<<<"i","n","s","p","i","r","i","n","g">>, 7>>,
    <<<<"m","o","t","i","v","a","t","e","d">>, 6>>,
    <<<<"l","i","k","e">>, 4>>,
    <<<<"o","k","a","y">>, 2>>,
    <<<<"f","i","n","e">>, 3>>,
    <<<<"c","o","o","l">>, 5>>,
    <<<<"i","n","t","e","r","e","s","t","i","n","g">>, 4>>,
    <<<<"h","e","l","p","f","u","l">>, 5>>,
    <<<<"u","s","e","f","u","l">>, 5>>,
    <<<<"r","e","c","o","m","m","e","n","d">>, 6>>,
    <<<<"t","h","a","n","k","s">>, 5>>
>>

NEGATIVE_WORDS == <<
    <<<<"t","e","r","r","i","b","l","e">>, -9>>,
    <<<<"h","o","r","r","i","b","l","e">>, -9>>,
    <<<<"a","w","f","u","l">>, -9>>,
    <<<<"w","o","r","s","t">>, -9>>,
    <<<<"d","i","s","g","u","s","t","i","n","g">>, -9>>,
    <<<<"h","a","t","e">>, -8>>,
    <<<<"d","i","s","a","s","t","e","r">>, -8>>,
    <<<<"p","a","t","h","e","t","i","c">>, -8>>,
    <<<<"b","a","d">>, -6>>,
    <<<<"p","o","o","r">>, -5>>,
    <<<<"d","i","s","a","p","p","o","i","n","t","i","n","g">>, -7>>,
    <<<<"u","p","s","e","t">>, -6>>,
    <<<<"a","n","g","r","y">>, -7>>,
    <<<<"f","r","u","s","t","r","a","t","e","d">>, -6>>,
    <<<<"a","n","n","o","y","e","d">>, -5>>,
    <<<<"s","a","d">>, -6>>,
    <<<<"b","o","r","i","n","g">>, -5>>,
    <<<<"w","a","s","t","e">>, -6>>,
    <<<<"s","t","u","p","i","d">>, -7>>,
    <<<<"u","s","e","l","e","s","s">>, -7>>,
    <<<<"w","r","o","n","g">>, -5>>,
    <<<<"f","a","i","l","e","d">>, -6>>,
    <<<<"b","r","o","k","e","n">>, -5>>,
    <<<<"p","r","o","b","l","e","m">>, -4>>,
    <<<<"d","i","s","l","i","k","e">>, -4>>,
    <<<<"m","e","h">>, -2>>,
    <<<<"m","e","d","i","o","c","r","e">>, -3>>,
    <<<<"i","s","s","u","e">>, -3>>,
    <<<<"d","i","f","f","i","c","u","l","t">>, -3>>,
    <<<<"c","o","n","f","u","s","i","n","g">>, -4>>,
    <<<<"w","o","r","r","i","e","d">>, -4>>
>>

\* multipliers, in tenths
INTENSIFIERS == <<
    <<<<"v","e","r","y">>, 15>>,
    <<<<"r","e","a","l","l","y">>, 14>>,
    <<<<"e","x","t","r","e","m","e","l","y">>, 17>>,
    <<<<"a","b","s","o","l","u","t","e","l","y">>, 18>>,
    <<<<"t","o","t","a","l","l","y">>, 15>>,
    <<<<"c","o","m","p","l","e","t","e","l","y">>, 16>>,
    <<<<"i","n","c","r","e","d","i","b","l","y">>, 17>>,
    <<<<"s","u","p","e","r">>, 14>>,
    <<<<"s","o">>, 13>>,
    <<<<"q","u","i","t","e">>, 12>>,
    <<<<"p","r","e","t","t","y">>, 12>>,
    <<<<"h","i","g","h","l","y">>, 14>>
>>

NEGATORS == <<
    <<"n","o","t">>,
    <<"n","'","t">>,
    <<"n","o">>,
    <<"n","e","v","e","r">>,
    <<"n","o","n","e">>,
    <<"n","o","t","h","i","n","g">>,
    <<"n","e","i","t","h","e","r">>,
    <<"n","o","w","h","e","r","e">>
>>

\* the members of the three emoji classes among the characters modelled;
\* the variation selector of the two-code-point emoji is in the positive
\* and in the negative class
POSITIVE_EMOJI == {"<grin>", "<party>", "<heart>", "<vs16>"}

NEGATIVE_EMOJI == {"<sob>", "<vs16>"}

NEUTRAL_EMOJI == {"<think>"}

\* dict lookup: the table has w as a key
HasKey(table, w) == \E k \in 1..Len(table) : table[k][1] = w

Lookup(table, w) == table[CHOOSE k \in 1..Len(table) : table[k][1] = w][2]

None == [none |-> TRUE]

Frac(n, d) ==
    LET g == Gcd(IF n < 0 THEN -n ELSE n, d)
    IN [none |-> FALSE, num |-> n \div g, den |-> d \div g]

\* max(-1, min(1, score))
ClampUnit(f) ==
    IF f.num > f.den THEN Frac(1, 1)
    ELSE IF f.num < -f.den THEN Frac(-1, 1)
    ELSE f

\* re.findall(r'\b\w+\b', s): the maximal runs of word characters
RECURSIVE WordsFrom(_, _)
WordsFrom(s, i) ==
    IF i > Len(s) THEN <<>>
    ELSE IF ~IsWordChar(s[i]) THEN WordsFrom(s, i + 1)
    ELSE LET e == WordRunEnd(s, i)
         IN <<SubSeq(s, i, e)>> \o WordsFrom(s, e + 1)

Words(s) == WordsFrom(s, 1)

\* str.split(): the maximal runs of characters that are not whitespace
RECURSIVE SplitFrom(_, _)
SplitFrom(s, i) ==
    IF i > Len(s) THEN <<>>
    ELSE IF IsSpace(s[i]) THEN SplitFrom(s, i + 1)
    ELSE LET e == CHOOSE j \in i..Len(s) :
                     /\ \A k \in i..j : ~IsSpace(s[k])
                     /\ (j = Len(s) \/ IsSpace(s[j + 1]))
         IN <<SubSeq(s, i, e)>> \o SplitFrom(s, e + 1)

Split(s) == SplitFrom(s, 1)

\* str.strip()
Strip(s) ==
    IF \A i \in 1..Len(s) : IsSpace(s[i]) THEN <<>>
    ELSE LET a == CHOOSE i \in 1..Len(s) : ~IsSpace(s[i]) /\ \A k \in 1..(i - 1) : IsSpace(s[k])
             b == CHOOSE i \in 1..Len(s) : ~IsSpace(s[i]) /\ \A k \in (i + 1)..Len(s) : IsSpace(s[k])
         IN SubSeq(s, a, b)

\* every word that has a word before it taken as negated
Negated_AnyPrevious(words, i) == i > 1

\* any(neg in words[i-1] for neg in self.NEGATORS)
Negated(words, i) ==
    i > 1 /\ \E k \in 1..Len(NEGATORS) : Contains(words[i - 1], NEGATORS[k])

\* the multiplier of the word before, in tenths
Intensity(words, i) ==
    IF i > 1 /\ HasKey(INTENSIFIERS, words[i - 1])
    THEN Lookup(INTENSIFIERS, words[i - 1])
    ELSE 10

InLexicon(w) == HasKey(POSITIVE_WORDS, w) \/ HasKey(NEGATIVE_WORDS, w)

\* the score appended for words[i], in units of 1/200
WordScore(words, i) ==
    LET w     == words[i]
        value == IF HasKey(POSITIVE_WORDS, w) THEN Lookup(POSITIVE_WORDS, w)
                 ELSE Lookup(NEGATIVE_WORDS, w)
        score == value * Intensity(words, i)
    IN IF Negated(words, i) THEN -score ELSE 2 * score

\* sum(scores) / max(len(scores), len(words) / 5)
lexicon_analysis(text) ==
    LET words   == Words(Lower(text))
        matched == {i \in 1..Len(words) : InLexicon(words[i])}
        total   == SumSeq([i \in 1..Len(words) |->
                             IF i \in matched THEN WordScore(words, i) ELSE 0])
    IN IF Len(words) = 0 THEN None
       ELSE IF matched = {} THEN Frac(0, 1)
       ELSE Frac(total, 40 * Max(5 * Cardinality(matched), Len(words)))

emoji_analysis(text) ==
    LET positive == CountIn(text, POSITIVE_EMOJI)
        negative == CountIn(text, NEGATIVE_EMOJI)
        neutral  == CountIn(text, NEUTRAL_EMOJI)
        total    == positive + negative + neutral
    IN IF total = 0 THEN None
       ELSE ClampUnit(Frac(4 * (positive - negative), 5 * total))

\* re.search(r'\b' + p + r'\b', s) for a phrase p that begins and ends with
\* a word character
SearchBounded(s, p) ==
    \E i \in 1..Len(s) :
        /\ MatchAt(s, p, i)
        /\ (i = 1 \/ ~IsWordChar(s[i - 1]))
        /\ (i + Len(p) - 1 = Len(s) \/ ~IsWordChar(s[i + Len(p)]))

\* the alternatives of each of the five positive patterns, one row a pattern
POSITIVE_PATTERNS == <<
    {<<"l","o","l">>,
     <<"l","m","a","o">>,
     <<"h","a","h","a">>,
     <<"h","e","h","e">>},
    {<<"t","h","a","n","k">>,
     <<"t","h","a","n","k","s">>,
     <<"t","h","a","n","k","y","o","u">>},
    {<<"c","o","n","g","r","a","t">>,
     <<"c","o","n","g","r","a","t","s">>,
     <<"c","o","n","g","r","a","t","u","l","a","t","i","o","n","s">>},
    {<<"w","e","l","l"," ","d","o","n","e">>},
    {<<"g","o","o","d"," ","j","o","b">>,
     <<"g","o","o","d"," ","w","o","r","k">>}
>>

NEGATIVE_PATTERNS == <<
    {<<"u","g","h">>,
     <<"e","w">>,
     <<"y","u","c","k">>},
    {<<"u","n","f","o","r","t","u","n","a","t","e","l","y">>},
    {<<"w","a","s","t","e"," ","o","f">>},
    {<<"c","a","n","'","t"," ","s","t","a","n","d">>,
     <<"c","a","n","n","o","t"," ","s","t","a","n","d">>}
>>

\* how many patterns of the table are found in the text
PatternHits(table, s) ==
    Cardinality({k \in 1..Len(table) : \E p \in table[k] : SearchBounded(s, p)})

\* str.isupper(): a cased character, and no lowercase one
IsUpper(w) ==
    /\ \E i \in 1..Len(w) : w[i] \in UpperLetters
    /\ \A i \in 1..Len(w) : w[i] \notin LowerLetters

pattern_analysis(text) ==
    LET text_lower == Lower(text)
        excl       == CountIn(text, {"!"})
        quest      == CountIn(text, {"?"})
        words      == Split(text)
        caps       == Cardinality({i \in 1..Len(words) :
                                      IsUpper(words[i]) /\ Len(words[i]) > 2})
        pos        == PatternHits(POSITIVE_PATTERNS, text_lower)
        neg        == PatternHits(NEGATIVE_PATTERNS, text_lower)
        indicators == (IF excl > 0 THEN 1 ELSE 0) + (IF quest > 0 THEN 1 ELSE 0)
                      + (IF caps > 0 THEN 1 ELSE 0) + pos + neg
        \* in hundredths, without the share of the capitalised words
        fixed      == Min(5 * excl, 20) - Min(2 * quest, 10) + 20 * pos - 20 * neg
        n          == Max(Len(words), 1)
    IN IF indicators = 0 THEN None
       ELSE ClampUnit(Frac(fixed * n + 10 * caps, 100 * n))

\* the weights of the signals, in quarters: lexicon, emoji, pattern
SIGNAL_WEIGHTS == <<2, 1, 1>>

\* sum(s * w for s, w in valid_scores) / total_weight
WeightedOverall(signals) ==
    LET valid == {k \in 1..3 : ~signals[k].none}
        num(k) == IF k \in valid THEN signals[k].num ELSE 0
        den(k) == IF k \in valid THEN signals[k].den ELSE 1
        weight == SumSeq([k \in 1..3 |-> IF k \in valid THEN SIGNAL_WEIGHTS[k] ELSE 0])
    IN IF valid = {} THEN Frac(0, 1)
       ELSE Frac(SIGNAL_WEIGHTS[1] * num(1) * den(2) * den(3)
                 + SIGNAL_WEIGHTS[2] * num(2) * den(1) * den(3)
                 + SIGNAL_WEIGHTS[3] * num(3) * den(1) * den(2),
                 weight * den(1) * den(2) * den(3))

\* all(s > 0 for s in scores_only if s != 0) or all(s < 0 for ... if s != 0)
SignalsAgree(signals) ==
    LET valid == {k \in 1..3 : ~signals[k].none}
    IN \/ \A k \in valid : signals[k].num # 0 => signals[k].num > 0
       \/ \A k \in valid : signals[k].num # 0 => signals[k].num < 0

\* in hundredths
sentiment_calculate_confidence(text, signals) ==
    LET word_count == Len(Split(text))
        valid      == {k \in 1..3 : ~signals[k].none}
        c == 50
             + (IF word_count > 50 THEN 20
                ELSE IF word_count > 20 THEN 10
                ELSE IF word_count < 5 THEN -10 ELSE 0)
             + 10 * Cardinality(valid)
             + (IF Cardinality(valid) >= 2 /\ SignalsAgree(signals) THEN 15 ELSE 0)
    IN Min(Max(c, 10), 100)

\* num / den is exactly 0.2 or -0.2
AtThreshold(overall) == 5 * overall.num = overall.den \/ 5 * overall.num = -overall.den

\* if overall > 0.2 ... elif overall < -0.2 ... else.  The double overall is
\* within rounding error of num / den, so where num / den is exactly 0.2 or
\* -0.2 the comparison goes either way: beyond says which.
Label(overall, beyond) ==
    IF 5 * overall.num > overall.den \/ (5 * overall.num = overall.den /\ beyond)
    THEN "positive"
    ELSE IF 5 * overall.num < -overall.den \/ (5 * overall.num = -overall.den /\ beyond)
    THEN "negative"
    ELSE "neutral"

\* round(x, 3) in thousandths, for x = num / den
Round3(f) ==
    IF f.num >= 0 THEN RoundHalfEven(1000 * f.num, f.den)
    ELSE -RoundHalfEven(-1000 * f.num, f.den)

\* round(score, 3) if score else 0
BreakdownEntry(f) == IF f.none THEN 0 ELSE Round3(f)

\* overall and the breakdown are in thousandths, confidence in hundredths
\* the three signals of the stripped text
Signals(t) == <<lexicon_analysis(t), emoji_analysis(t), pattern_analysis(t)>>

SentimentAnalyzer_analyze(text, beyond) ==
    IF Strip(text) = <<>>
    THEN [overall |-> 0, confidence |-> 0, label |-> "neutral", breakdown |-> EmptyDict]
    ELSE
      LET t       == Strip(text)
          signals == Signals(t)
          overall == WeightedOverall(signals)
      IN [overall    |-> Round3(overall),
          confidence |-> sentiment_calculate_confidence(t, signals),
          label      |-> Label(overall, beyond),
          breakdown  |-> [lexicon |-> BreakdownEntry(signals[1]),
                          emoji   |-> BreakdownEntry(signals[2]),
                          pattern |-> BreakdownEntry(signals[3])]]

\* [self.analyze(text) for text in texts]
analyze_batch(texts, beyonds) ==
    [i \in 1..Len(texts) |-> SentimentAnalyzer_analyze(texts[i], beyonds[i])]

(***************************************************************************)
(* The texts analysed: up to MaxTokens words of the vocabulary and up to   *)
(* MaxPad filler words, separated by single spaces, then punctuation.      *)
(***************************************************************************)
MaxTokens == 2

MaxPad == 6

SentimentVocabulary == {
    <<"g","o","o","d">>,
    <<"l","o","v","e">>,
    <<"a","m","a","z","i","n","g">>,
    <<"l","i","k","e">>,
    <<"m","e","h">>,
    <<"h","a","t","e">>,
    <<"a","b","s","o","l","u","t","e","l","y">>,
    <<"n","o","t">>,
    <<"k","n","o","w">>,
    <<"W","O","W">>}

Punctuation == {<<>>, <<"!">>, <<"!","!","!","!","!">>, <<"?">>, <<"!","?">>}

RECURSIVE JoinWords(_)
JoinWords(ws) ==
    IF ws = <<>> THEN <<>>
    ELSE IF Len(ws) = 1 THEN ws[1]
    ELSE ws[1] \o <<" ">> \o JoinWords(Tail(ws))

RECURSIVE TokenSeqs(_, _)
TokenSeqs(V, n) ==
    IF n = 0 THEN {<<>>}
    ELSE LET shorter == TokenSeqs(V, n - 1)
         IN shorter \cup {Append(s, w) : s \in shorter, w \in V}

FILLER == <<"x">>

SpecialTexts == {
    <<>>,
    <<" "," "," ">>,
    <<" ","g","o","o","d"," ">>,
    <<"I"," ","a","b","s","o","l","u","t","e","l","y"," ","l","o","v","e"," ","t","h","i","s"," ","a","m","a","z","i","n","g"," ","p","r","o","d","u","c","t","!","!","!">>,
    <<"w","e","l","l"," ","d","o","n","e",","," ","g","o","o","d"," ","j","o","b">>,
    <<"u","g","h",","," ","I"," ","c","a","n","'","t"," ","s","t","a","n","d"," ","t","h","i","s"," ","w","a","s","t","e"," ","o","f"," ","t","i","m","e">>,
    <<"c","o","n","g","r","a","t","s","!"," ","t","h","a","n","k","y","o","u"," ","l","o","l">>,
    <<"!","!","!","!">>,
    <<"?","?","?">>,
    <<".",".",".">>,
    <<"G","R","E","A","T"," ","N","E","W","S"," ","T","O","D","A","Y">>,
    <<"n","o","t","h","i","n","g"," ","g","o","o","d">>,
    <<"s","o"," ","s","o">>,
    <<"v","e","r","y"," ","l","o","v","e">>,
    <<"o","k","a","y"," ","o","k","a","y"," ","o","k","a","y">>,
    <<"t","h","a","n","k","s"," ","m","e","h">>,
    <<"b","a","d"," ","v","e","r","y"," ","g","o","o","d"," ","t","h","e"," ","e","n","d">>,
    <<"<grin>">>,
    <<"<vs16>">>,
    <<"<sob>"," ","<sob>"," ","<think>">>,
    <<"g","o","o","d"," ","<think>">>,
    <<"x"," ","<think>">>,
    <<"g","o","o","d"," ","<grin>","<party>","!">>,
    <<"b","a","d"," ","<grin>">>}

\* every word sequence without filler words, and every sequence of at most
\* one word with every number of filler words
SentimentTexts ==
    {JoinWords(ts) \o p :
        ts \in TokenSeqs(SentimentVocabulary, MaxTokens), p \in Punctuation}
    \cup {JoinWords(ts \o [i \in 1..pad |-> FILLER]) \o p :
        ts \in TokenSeqs(SentimentVocabulary, 1), pad \in 0..MaxPad, p \in Punctuation}
    \cup SpecialTexts

SentimentAnalyze ==
    \E text \in SentimentTexts, beyond \in BOOLEAN :
        /\ Idle
        /\ beyond => AtThreshold(WeightedOverall(Signals(Strip(text))))
        /\ op' = "SentimentAnalyzer.analyze"
        /\ input' = text
        /\ result' = SentimentAnalyzer_analyze(text, beyond)
        /\ UNCHANGED shared

NextSentiment == SentimentAnalyze \/ Return

SpecSentiment == Init /\ [][NextSentiment]_vars

SentimentReturned == op = "SentimentAnalyzer.analyze"

\* C2: SentimentAnalyzer.analyze returns overall in [-1,1] and confidence in
\* [0,1] for every text, sentiment words after an intensifier included.
C2_SentimentBounds ==
    SentimentReturned =>
        /\ result.overall \in -1000..1000
        /\ result.confidence \in 0..100

\* C5: the label is the one the thresholds 0.2 and -0.2 assign to the overall
\* value of the same result.
C5_LabelMatchesReturnedOverall ==
    SentimentReturned =>
        /\ result.label = "positive" <=> result.overall > 200
        /\ result.label = "negative" <=> result.overall < -200
        /\ result.label \in {"positive", "negative", "neutral"}

(***************************************************************************)
(* ProfileScorer (profile_scorer.py).  bot_score and every returned score  *)
(* are in tenths; sentiment.overall is in thousandths; the weighted sum is *)
(* kept in thousandths.                                                    *)
(***************************************************************************)
\* WEIGHTS, in hundredths
WEIGHTS == [authenticity |-> 30, engagement |-> 25, relevance |-> 25, accessibility |-> 20]

\* a clamp that forgets the upper end
Clamp0To100_NoUpper(score) == Max(0, score)

\* max(0, min(100, score))
Clamp0To100(score) == Max(0, Min(100, score))

calculate_engagement_score(metadata) ==
    LET followers   == Get(metadata, "followers", 0)
        following   == Get(metadata, "following", 0)
        posts_count == Get(metadata, "posts_count", 0)
        verified    == Get(metadata, "verified", FALSE)
        score == 50
                 + (IF verified THEN 20 ELSE 0)
                 + (IF followers > 10000 THEN 15
                    ELSE IF followers > 1000 THEN 10
                    ELSE IF followers > 100 THEN 5
                    ELSE IF followers < 10 THEN -10 ELSE 0)
                 + (IF following > 0
                    THEN (IF followers > 2 * following THEN 15
                          ELSE IF followers > following THEN 10
                          ELSE IF 10 * followers < following THEN -15 ELSE 0)
                    ELSE 0)
                 + (IF posts_count > 100 THEN 10
                    ELSE IF posts_count > 20 THEN 5
                    ELSE IF posts_count < 5 THEN -10 ELSE 0)
    IN Clamp0To100(score)

calculate_relevance_score(profile_interests, target_interests) ==
    IF profile_interests = <<>> THEN 30
    ELSE IF target_interests = <<>> THEN 50
    ELSE
      LET profile_set == {Lower(profile_interests[i]) : i \in 1..Len(profile_interests)}
          target_set  == {Lower(target_interests[i]) : i \in 1..Len(target_interests)}
          matches     == profile_set \cap target_set
          partial     == {pt \in profile_set \X target_set :
                             Contains(pt[2], pt[1]) \/ Contains(pt[1], pt[2])}
      IN Clamp0To100(30 + 15 * Cardinality(matches) + 5 * Cardinality(partial))

calculate_accessibility_score(metadata, sentiment) ==
    LET overall_sentiment == Get(sentiment, "overall", 0)
        followers   == Get(metadata, "followers", 0)
        posts_count == Get(metadata, "posts_count", 0)
        score == 50
                 + (IF overall_sentiment > 300 THEN 20
                    ELSE IF overall_sentiment > 0 THEN 10
                    ELSE IF overall_sentiment < -300 THEN -15 ELSE 0)
                 + (IF Get(metadata, "verified", FALSE) THEN -10 ELSE 0)
                 + (IF followers > 100000 THEN -20
                    ELSE IF followers > 10000 THEN -10
                    ELSE IF followers < 100 THEN 10 ELSE 0)
                 + (IF posts_count > 50 THEN 10
                    ELSE IF posts_count < 5 THEN -10 ELSE 0)
    IN Clamp0To100(score)

\* the four components, in tenths
Components(profile_data) ==
    LET metadata == Get(profile_data, "metadata", EmptyDict)
    IN [authenticity  |-> Max(0, 1000 - Get(profile_data, "bot_score", 500)),
        engagement    |-> 10 * calculate_engagement_score(metadata),
        relevance     |-> 10 * calculate_relevance_score(
                                   Get(profile_data, "interests", <<>>),
                                   Get(profile_data, "target_interests", <<>>)),
        accessibility |-> 10 * calculate_accessibility_score(
                                   metadata, Get(profile_data, "sentiment", EmptyDict))]

\* sum(components[key] * weight for key, weight in self.WEIGHTS.items()), in
\* thousandths; weights is the table read
WeightedSumWith(weights, components) ==
    components.authenticity * weights.authenticity
    + components.engagement * weights.engagement
    + components.relevance * weights.relevance
    + components.accessibility * weights.accessibility

WeightedSum(components) == WeightedSumWith(WEIGHTS, components)

Recommendation(overall) ==
    IF overall >= 75000 THEN "high_priority"
    ELSE IF overall >= 50000 THEN "good_target"
    ELSE IF overall >= 30000 THEN "consider"
    ELSE "skip"

get_tier(score) ==
    IF score >= 80000 THEN "S"
    ELSE IF score >= 65000 THEN "A"
    ELSE IF score >= 50000 THEN "B"
    ELSE IF score >= 35000 THEN "C"
    ELSE "D"

\* round(overall, 1), in tenths, of overall = n / d.  The double sum of the
\* four products is within rounding error of n / d, so where n / d lies
\* exactly between two tenths the result is either of them: up says which.
RoundTenth(n, d, up) ==
    LET q == n \div d
        r == n % d
    IN IF 2 * r > d \/ (2 * r = d /\ up) THEN q + 1 ELSE q

\* score, reading the weights from the table given
ScoreWith(weights, profile_data, up) ==
    LET components == Components(profile_data)
        overall    == WeightedSumWith(weights, components)
    IN [overall        |-> RoundTenth(overall, 100, up),
        components     |-> components,
        recommendation |-> Recommendation(overall),
        tier           |-> get_tier(overall)]

ProfileScorer_score(profile_data, up) == ScoreWith(WEIGHTS, profile_data, up)

\* {**profile, "quality_score": score_result}: a new dict
WithQualityScore(profile, score_result) ==
    [k \in (DOMAIN profile) \cup {"quality_score"} |->
        IF k = "quality_score" THEN score_result ELSE profile[k]]

\* the element appended to scored
Scored(profile, up) == WithQualityScore(profile, ProfileScorer_score(profile, up))

\* an insertion that puts x before the elements of equal key
RECURSIVE InsertDesc_Unstable(_, _)
InsertDesc_Unstable(x, s) ==
    IF s = <<>> THEN <<x>>
    ELSE IF x.quality_score.overall >= Head(s).quality_score.overall THEN <<x>> \o s
    ELSE <<Head(s)>> \o InsertDesc_Unstable(x, Tail(s))

\* list.sort(key=..., reverse=True) is stable: x goes after every element
\* whose key is not smaller
RECURSIVE InsertDesc(_, _)
InsertDesc(x, s) ==
    IF s = <<>> THEN <<x>>
    ELSE IF x.quality_score.overall > Head(s).quality_score.overall THEN <<x>> \o s
    ELSE <<Head(s)>> \o InsertDesc(x, Tail(s))

RECURSIVE SortByOverallDesc(_)
SortByOverallDesc(s) ==
    IF s = <<>> THEN <<>>
    ELSE InsertDesc(s[Len(s)], SortByOverallDesc(SubSeq(s, 1, Len(s) - 1)))

\* ups[i] is the rounding of profile i
rank_profiles(profiles, ups) ==
    SortByOverallDesc([i \in 1..Len(profiles) |-> Scored(profiles[i], ups[i])])

\* a slice that keeps one element too many
Slice_OneMore(s, k) == SubSeq(s, 1, Min(k + 1, Len(s)))

\* s[:k]
Slice(s, k) ==
    IF k >= 0 THEN SubSeq(s, 1, Min(k, Len(s)))
    ELSE SubSeq(s, 1, Max(0, Len(s) + k))

\* min_score is in tenths
filter_profiles(profiles, ups, min_score, max_count) ==
    Slice(SelectSeq(rank_profiles(profiles, ups),
                    LAMBDA p : p.quality_score.overall >= min_score),
          max_count)

(***************************************************************************)
(* The inputs of ProfileScorer.                                            *)
(***************************************************************************)
\* in tenths: 16.8 is a score BotDetector returns
BotScores == {0, 1, 50, 168, 300, 385, 500, 650, 800, 999, 1000}

ScorerMetadata ==
    [followers : {5, 150, 5000, 20000, 200000}, following : {0, 500, 6000},
     posts_count : {0, 30, 200}, verified : BOOLEAN]
    \cup {EmptyDict, [followers |-> 100], [followers |-> 5000, following |-> 500, verified |-> TRUE]}

CoreScorerMetadata ==
    {EmptyDict, [followers |-> 5000, following |-> 500, posts_count |-> 200, verified |-> TRUE]}

InterestLists == {
    <<>>,
    <<<<"a","i">>>>,
    <<<<"a","i">>, <<"p","y","t","h","o","n">>>>,
    <<<<"m","a","c","h","i","n","e"," ","l","e","a","r","n","i","n","g">>, <<"m","u","s","i","c">>, <<"A","I">>>>}

TargetLists == {
    <<>>,
    <<<<"a","i">>>>,
    <<<<"a","i">>, <<"p","y","t","h","o","n">>, <<"m","u","s","i","c">>, <<"m","a","c","h","i","n","e"," ","l","e","a","r","n","i","n","g">>, <<"a","r","t">>>>}

\* sentiment results: overall in thousandths
Sentiments == {EmptyDict, [overall |-> 0], [overall |-> 200], [overall |-> 301],
               [overall |-> -300], [overall |-> -301], [overall |-> 1620]}

\* the optional keys of a scorer input, present or not
ScorerInput(bs, m, i, t, s) ==
    [k \in {"bot_score", "metadata", "interests", "target_interests", "sentiment"} |->
        CASE k = "bot_score" -> bs
          [] k = "metadata" -> m
          [] k = "interests" -> i
          [] k = "target_interests" -> t
          [] k = "sentiment" -> s]

ScorerProfiles ==
    {ScorerInput(bs, m, i, t, s) :
        bs \in BotScores, m \in ScorerMetadata, i \in {<<>>}, t \in {<<>>}, s \in {EmptyDict}}
    \cup {ScorerInput(bs, m, i, t, s) :
        bs \in {50, 168}, m \in CoreScorerMetadata, i \in InterestLists, t \in TargetLists,
        s \in Sentiments}
    \cup {Restrict(ScorerInput(300, [followers |-> 100], <<<<"a","i">>>>, <<<<"a","i">>>>, [overall |-> 200]), keys) :
        keys \in SUBSET {"bot_score", "metadata", "interests", "target_interests", "sentiment"}}

Score ==
    \E p \in ScorerProfiles, up \in BOOLEAN :
        /\ Idle
        /\ op' = "ProfileScorer.score"
        /\ input' = p
        /\ result' = ProfileScorer_score(p, up)
        /\ UNCHANGED shared

\* the profiles ranked: a name tells apart profiles that score the same
Candidate(name, bs, m) == [username |-> name, bot_score |-> bs, metadata |-> m]

RankCandidates == {
    Candidate("ann", 55, [followers |-> 5000, following |-> 500, verified |-> TRUE]),
    Candidate("bob", 55, [followers |-> 5000, following |-> 500, verified |-> TRUE]),
    Candidate("cy", 800, [followers |-> 5, following |-> 6000]),
    [username |-> "dee"]}

MaxProfiles == 3

RECURSIVE ListsUpTo(_, _)
ListsUpTo(S, n) ==
    IF n = 0 THEN {<<>>}
    ELSE LET shorter == ListsUpTo(S, n - 1)
         IN shorter \cup {Append(l, x) : l \in shorter, x \in S}

RankInputs == ListsUpTo(RankCandidates, MaxProfiles)

\* in tenths
MinScores == {0, 400, 1000}

MaxCounts == {-1, 0, 1, 100}

\* the weighted sum of the profile lies exactly between two tenths
IsTie(profile) == WeightedSum(Components(profile)) % 100 = 50

\* the roundings of a list of profiles: one choice for each tie
Roundings(profiles) ==
    {ups \in [1..Len(profiles) -> BOOLEAN] :
        \A i \in 1..Len(profiles) : ups[i] => IsTie(profiles[i])}

Rank ==
    \E profiles \in RankInputs :
        \E ups \in Roundings(profiles) :
            /\ Idle
            /\ op' = "ProfileScorer.rank_profiles"
            /\ input' = [profiles |-> profiles, ups |-> ups]
            /\ result' = rank_profiles(profiles, ups)
            /\ UNCHANGED shared

Filter ==
    \E profiles \in RankInputs, min_score \in MinScores, max_count \in MaxCounts :
        \E ups \in Roundings(profiles) :
            /\ Idle
            /\ op' = "ProfileScorer.filter_profiles"
            /\ input' = [profiles |-> profiles, min_score |-> min_score,
                         max_count |-> max_count, ups |-> ups]
            /\ result' = filter_profiles(profiles, ups, min_score, max_count)
            /\ UNCHANGED shared

NextScorer == Score \/ Rank \/ Filter \/ Return

SpecScorer == Init /\ [][NextScorer]_vars

ScoreReturned == op = "ProfileScorer.score"

RecommendationOfReturned(overall) ==
    IF overall >= 750 THEN "high_priority"
    ELSE IF overall >= 500 THEN "good_target"
    ELSE IF overall >= 300 THEN "consider"
    ELSE "skip"

TierOfReturned(overall) ==
    IF overall >= 800 THEN "S"
    ELSE IF overall >= 650 THEN "A"
    ELSE IF overall >= 500 THEN "B"
    ELSE IF overall >= 350 THEN "C"
    ELSE "D"

\* C6: recommendation and tier are those the thresholds 75/50/30 and
\* 80/65/50/35 assign to the overall value of the same result.
C6_RecommendationMatchesReturnedOverall ==
    ScoreReturned =>
        /\ result.recommendation = RecommendationOfReturned(result.overall)
        /\ result.tier = TierOfReturned(result.overall)
        /\ result.recommendation # ""

RankReturned == op = "ProfileScorer.rank_profiles"

\* the entry is the profile with its quality score attached
IsScoredFrom(entry, profile, up) ==
    /\ DOMAIN entry = (DOMAIN profile) \cup {"quality_score"}
    /\ \A k \in DOMAIN profile : entry[k] = profile[k]
    /\ entry.quality_score = ProfileScorer_score(profile, up)

Bijections(n) == {f \in [1..n -> 1..n] : \A i, j \in 1..n : f[i] = f[j] => i = j}

\* C7: rank_profiles returns a permutation of its input, every profile with
\* its quality score, with overall non-increasing, and profiles of equal
\* overall in their input order.
C7_RankIsStableDescendingPermutation ==
    RankReturned =>
        LET profiles == input.profiles
            n == Len(profiles)
        IN /\ Len(result) = n
           /\ \A i \in 1..(n - 1) :
                 result[i].quality_score.overall >= result[i + 1].quality_score.overall
           /\ \E f \in Bijections(n) :
                 /\ \A i \in 1..n : IsScoredFrom(result[i], profiles[f[i]], input.ups[f[i]])
                 /\ \A i, j \in 1..n :
                       (i < j /\ result[i].quality_score.overall
                                   = result[j].quality_score.overall) => f[i] < f[j]

\* two different profiles of equal overall were ranked, and one of lower overall
C7_Witness ==
    /\ RankReturned
    /\ Len(result) = 3
    /\ result[1].username # result[2].username
    /\ result[1].quality_score.overall = result[2].quality_score.overall
    /\ result[2].quality_score.overall > result[3].quality_score.overall
    /\ input.profiles[1].username = result[3].username

FilterReturned == op = "ProfileScorer.filter_profiles"

\* C8: for max_count >= 0, filter_profiles returns the first max_count
\* elements of the ranked profiles whose overall is at least min_score: all
\* returned are at least min_score, at most max_count are returned, in rank
\* order, and no omitted qualifying profile ranks before a returned one.
C8_FilterIsThresholdedPrefixOfRank ==
    (FilterReturned /\ input.max_count >= 0) =>
        LET ranked == rank_profiles(input.profiles, input.ups)
            good   == {i \in 1..Len(ranked) :
                          ranked[i].quality_score.overall >= input.min_score}
            \* the k-th qualifying position of the ranking
            nth(k) == CHOOSE i \in good : Cardinality({j \in good : j < i}) = k - 1
        IN /\ Len(result) = Min(input.max_count, Cardinality(good))
           /\ Len(result) <= input.max_count
           /\ \A k \in 1..Len(result) :
                 /\ result[k] = ranked[nth(k)]
                 /\ result[k].quality_score.overall >= input.min_score

\* a ranking was cut by the threshold and by the count
C8_Witness ==
    /\ FilterReturned
    /\ input.max_count = 1
    /\ input.min_score = 400
    /\ Len(input.profiles) = 3
    /\ Len(result) = 1
    /\ Cardinality({i \in 1..3 :
          ProfileScorer_score(input.profiles[i], input.ups[i]).overall >= 400}) = 2

(***************************************************************************)
(* InterestExtractor (interest_extractor.py).  An interest is a string; a  *)
(* Python set of interests is the set of its elements together with an     *)
(* iteration order, which depends on the hashes of the strings and so on   *)
(* the hash seed of the process.                                           *)
(***************************************************************************)
\* the dict in insertion order
INTEREST_CATEGORIES == <<
    [category |-> "technology", keywords |-> <<
        <<"t","e","c","h">>,  \* tech
        <<"c","o","d","i","n","g">>,  \* coding
        <<"p","r","o","g","r","a","m","m","i","n","g">>,  \* programming
        <<"d","e","v","e","l","o","p","e","r">>,  \* developer
        <<"s","o","f","t","w","a","r","e">>,  \* software
        <<"h","a","r","d","w","a","r","e">>,  \* hardware
        <<"a","i">>,  \* ai
        <<"a","r","t","i","f","i","c","i","a","l"," ","i","n","t","e","l","l","i","g","e","n","c","e">>,  \* artificial intelligence
        <<"m","a","c","h","i","n","e"," ","l","e","a","r","n","i","n","g">>,  \* machine learning
        <<"m","l">>,  \* ml
        <<"d","a","t","a"," ","s","c","i","e","n","c","e">>,  \* data science
        <<"b","l","o","c","k","c","h","a","i","n">>,  \* blockchain
        <<"c","r","y","p","t","o">>,  \* crypto
        <<"w","e","b","3">>,  \* web3
        <<"n","f","t">>,  \* nft
        <<"s","t","a","r","t","u","p">>,  \* startup
        <<"s","a","a","s">>,  \* saas
        <<"a","p","i">>,  \* api
        <<"j","a","v","a","s","c","r","i","p","t">>,  \* javascript
        <<"p","y","t","h","o","n">>,  \* python
        <<"r","e","a","c","t">>,  \* react
        <<"n","o","d","e">>,  \* node
        <<"i","o","s">>,  \* ios
        <<"a","n","d","r","o","i","d">>,  \* android
        <<"a","p","p">>,  \* app
        <<"c","l","o","u","d">>,  \* cloud
        <<"d","e","v","o","p","s">>,  \* devops
        <<"c","y","b","e","r","s","e","c","u","r","i","t","y">>,  \* cybersecurity
        <<"h","a","c","k","i","n","g">>,  \* hacking
        <<"o","p","e","n","s","o","u","r","c","e">>  \* opensource
    >>],
    [category |-> "business", keywords |-> <<
        <<"e","n","t","r","e","p","r","e","n","e","u","r">>,  \* entrepreneur
        <<"e","n","t","r","e","p","r","e","n","e","u","r","s","h","i","p">>,  \* entrepreneurship
        <<"s","t","a","r","t","u","p">>,  \* startup
        <<"f","o","u","n","d","e","r">>,  \* founder
        <<"c","e","o">>,  \* ceo
        <<"c","t","o">>,  \* cto
        <<"b","u","s","i","n","e","s","s">>,  \* business
        <<"m","a","r","k","e","t","i","n","g">>,  \* marketing
        <<"s","a","l","e","s">>,  \* sales
        <<"g","r","o","w","t","h">>,  \* growth
        <<"r","e","v","e","n","u","e">>,  \* revenue
        <<"i","n","v","e","s","t","m","e","n","t">>,  \* investment
        <<"v","e","n","t","u","r","e">>,  \* venture
        <<"v","c">>,  \* vc
        <<"f","u","n","d","i","n","g">>,  \* funding
        <<"m","o","n","e","y">>,  \* money
        <<"f","i","n","a","n","c","e">>,  \* finance
        <<"f","i","n","t","e","c","h">>,  \* fintech
        <<"b","a","n","k","i","n","g">>,  \* banking
        <<"s","t","o","c","k","s">>,  \* stocks
        <<"t","r","a","d","i","n","g">>,  \* trading
        <<"r","e","a","l"," ","e","s","t","a","t","e">>,  \* real estate
        <<"c","o","n","s","u","l","t","i","n","g">>,  \* consulting
        <<"s","t","r","a","t","e","g","y">>  \* strategy
    >>],
    [category |-> "creative", keywords |-> <<
        <<"d","e","s","i","g","n">>,  \* design
        <<"d","e","s","i","g","n","e","r">>,  \* designer
        <<"a","r","t">>,  \* art
        <<"a","r","t","i","s","t">>,  \* artist
        <<"c","r","e","a","t","i","v","e">>,  \* creative
        <<"p","h","o","t","o","g","r","a","p","h","y">>,  \* photography
        <<"p","h","o","t","o">>,  \* photo
        <<"v","i","d","e","o">>,  \* video
        <<"f","i","l","m">>,  \* film
        <<"m","u","s","i","c">>,  \* music
        <<"m","u","s","i","c","i","a","n">>,  \* musician
        <<"p","r","o","d","u","c","e","r">>,  \* producer
        <<"d","j">>,  \* dj
        <<"w","r","i","t","i","n","g">>,  \* writing
        <<"w","r","i","t","e","r">>,  \* writer
        <<"a","u","t","h","o","r">>,  \* author
        <<"c","o","n","t","e","n","t">>,  \* content
        <<"c","r","e","a","t","o","r">>,  \* creator
        <<"i","n","f","l","u","e","n","c","e","r">>,  \* influencer
        <<"f","a","s","h","i","o","n">>,  \* fashion
        <<"s","t","y","l","e">>,  \* style
        <<"a","e","s","t","h","e","t","i","c">>,  \* aesthetic
        <<"v","i","s","u","a","l">>,  \* visual
        <<"g","r","a","p","h","i","c">>,  \* graphic
        <<"u","i">>,  \* ui
        <<"u","x">>  \* ux
    >>],
    [category |-> "sports", keywords |-> <<
        <<"f","i","t","n","e","s","s">>,  \* fitness
        <<"g","y","m">>,  \* gym
        <<"w","o","r","k","o","u","t">>,  \* workout
        <<"t","r","a","i","n","i","n","g">>,  \* training
        <<"s","p","o","r","t","s">>,  \* sports
        <<"a","t","h","l","e","t","e">>,  \* athlete
        <<"r","u","n","n","i","n","g">>,  \* running
        <<"m","a","r","a","t","h","o","n">>,  \* marathon
        <<"c","y","c","l","i","n","g">>,  \* cycling
        <<"s","w","i","m","m","i","n","g">>,  \* swimming
        <<"y","o","g","a">>,  \* yoga
        <<"m","e","d","i","t","a","t","i","o","n">>,  \* meditation
        <<"f","o","o","t","b","a","l","l">>,  \* football
        <<"s","o","c","c","e","r">>,  \* soccer
        <<"b","a","s","k","e","t","b","a","l","l">>,  \* basketball
        <<"b","a","s","e","b","a","l","l">>,  \* baseball
        <<"t","e","n","n","i","s">>,  \* tennis
        <<"g","o","l","f">>,  \* golf
        <<"c","r","o","s","s","f","i","t">>,  \* crossfit
        <<"b","o","d","y","b","u","i","l","d","i","n","g">>,  \* bodybuilding
        <<"w","e","i","g","h","t","l","i","f","t","i","n","g">>,  \* weightlifting
        <<"h","i","k","i","n","g">>,  \* hiking
        <<"c","l","i","m","b","i","n","g">>  \* climbing
    >>],
    [category |-> "entertainment", keywords |-> <<
        <<"g","a","m","i","n","g">>,  \* gaming
        <<"g","a","m","e","r">>,  \* gamer
        <<"e","s","p","o","r","t","s">>,  \* esports
        <<"t","w","i","t","c","h">>,  \* twitch
        <<"s","t","r","e","a","m","i","n","g">>,  \* streaming
        <<"y","o","u","t","u","b","e">>,  \* youtube
        <<"m","o","v","i","e","s">>,  \* movies
        <<"f","i","l","m">>,  \* film
        <<"t","v">>,  \* tv
        <<"n","e","t","f","l","i","x">>,  \* netflix
        <<"a","n","i","m","e">>,  \* anime
        <<"m","a","n","g","a">>,  \* manga
        <<"c","o","m","i","c","s">>,  \* comics
        <<"m","u","s","i","c">>,  \* music
        <<"c","o","n","c","e","r","t","s">>,  \* concerts
        <<"f","e","s","t","i","v","a","l","s">>,  \* festivals
        <<"p","o","d","c","a","s","t">>,  \* podcast
        <<"c","o","m","e","d","y">>,  \* comedy
        <<"m","e","m","e","s">>  \* memes
    >>],
    [category |-> "lifestyle", keywords |-> <<
        <<"t","r","a","v","e","l">>,  \* travel
        <<"a","d","v","e","n","t","u","r","e">>,  \* adventure
        <<"w","a","n","d","e","r","l","u","s","t">>,  \* wanderlust
        <<"b","a","c","k","p","a","c","k","i","n","g">>,  \* backpacking
        <<"f","o","o","d","i","e">>,  \* foodie
        <<"f","o","o","d">>,  \* food
        <<"c","o","o","k","i","n","g">>,  \* cooking
        <<"c","h","e","f">>,  \* chef
        <<"w","i","n","e">>,  \* wine
        <<"c","o","f","f","e","e">>,  \* coffee
        <<"w","e","l","l","n","e","s","s">>,  \* wellness
        <<"h","e","a","l","t","h">>,  \* health
        <<"v","e","g","a","n">>,  \* vegan
        <<"s","u","s","t","a","i","n","a","b","l","e">>,  \* sustainable
        <<"m","i","n","i","m","a","l","i","s","t">>,  \* minimalist
        <<"l","u","x","u","r","y">>,  \* luxury
        <<"l","i","f","e","s","t","y","l","e">>,  \* lifestyle
        <<"p","a","r","e","n","t","i","n","g">>,  \* parenting
        <<"f","a","m","i","l","y">>  \* family
    >>],
    [category |-> "education", keywords |-> <<
        <<"l","e","a","r","n","i","n","g">>,  \* learning
        <<"e","d","u","c","a","t","i","o","n">>,  \* education
        <<"t","e","a","c","h","e","r">>,  \* teacher
        <<"p","r","o","f","e","s","s","o","r">>,  \* professor
        <<"s","t","u","d","e","n","t">>,  \* student
        <<"u","n","i","v","e","r","s","i","t","y">>,  \* university
        <<"r","e","s","e","a","r","c","h">>,  \* research
        <<"s","c","i","e","n","c","e">>,  \* science
        <<"p","h","y","s","i","c","s">>,  \* physics
        <<"c","h","e","m","i","s","t","r","y">>,  \* chemistry
        <<"b","i","o","l","o","g","y">>,  \* biology
        <<"m","a","t","h">>,  \* math
        <<"h","i","s","t","o","r","y">>,  \* history
        <<"p","h","i","l","o","s","o","p","h","y">>,  \* philosophy
        <<"p","s","y","c","h","o","l","o","g","y">>,  \* psychology
        <<"s","o","c","i","o","l","o","g","y">>,  \* sociology
        <<"e","c","o","n","o","m","i","c","s">>  \* economics
    >>],
    [category |-> "social", keywords |-> <<
        <<"a","c","t","i","v","i","s","m">>,  \* activism
        <<"s","o","c","i","a","l">>,  \* social
        <<"c","o","m","m","u","n","i","t","y">>,  \* community
        <<"n","o","n","p","r","o","f","i","t">>,  \* nonprofit
        <<"c","h","a","r","i","t","y">>,  \* charity
        <<"v","o","l","u","n","t","e","e","r">>,  \* volunteer
        <<"p","o","l","i","t","i","c","s">>,  \* politics
        <<"e","n","v","i","r","o","n","m","e","n","t">>,  \* environment
        <<"c","l","i","m","a","t","e">>,  \* climate
        <<"s","u","s","t","a","i","n","a","b","i","l","i","t","y">>,  \* sustainability
        <<"d","i","v","e","r","s","i","t","y">>,  \* diversity
        <<"i","n","c","l","u","s","i","o","n">>,  \* inclusion
        <<"e","q","u","a","l","i","t","y">>,  \* equality
        <<"j","u","s","t","i","c","e">>,  \* justice
        <<"h","u","m","a","n"," ","r","i","g","h","t","s">>,  \* human rights
        <<"m","e","n","t","a","l"," ","h","e","a","l","t","h">>  \* mental health
    >>]
>>

\* every keyword in the order `for category, keywords in ...items(): for
\* keyword in keywords` visits them
RECURSIVE KeywordsFrom(_)
KeywordsFrom(k) ==
    IF k > Len(INTEREST_CATEGORIES) THEN <<>>
    ELSE INTEREST_CATEGORIES[k].keywords \o KeywordsFrom(k + 1)

AllKeywords == KeywordsFrom(1)

\* __init__: self._keyword_to_category[keyword.lower()] = category, a later
\* category overwriting an earlier one
InterestExtractor_init ==
    [kw \in {Lower(AllKeywords[i]) : i \in 1..Len(AllKeywords)} |->
        LET last == CHOOSE k \in 1..Len(INTEREST_CATEGORIES) :
                        /\ \E j \in 1..Len(INTEREST_CATEGORIES[k].keywords) :
                              Lower(INTEREST_CATEGORIES[k].keywords[j]) = kw
                        /\ \A k2 \in (k + 1)..Len(INTEREST_CATEGORIES) :
                              \A j \in 1..Len(INTEREST_CATEGORIES[k2].keywords) :
                                 Lower(INTEREST_CATEGORIES[k2].keywords[j]) # kw
        IN INTEREST_CATEGORIES[last].category]

keyword_to_category == InterestExtractor_init

ENTITY_STOP_WORDS == {
    <<"t","h","e">>, <<"a","n","d">>, <<"f","o","r">>,
    <<"w","i","t","h">>, <<"t","h","i","s">>, <<"t","h","a","t">>}

\* str.count(p): the occurrences of p in s that do not overlap, from the left
RECURSIVE CountFrom(_, _, _)
CountFrom(s, p, i) ==
    IF i + Len(p) - 1 > Len(s) THEN 0
    ELSE IF MatchAt(s, p, i) THEN 1 + CountFrom(s, p, i + Len(p))
    ELSE CountFrom(s, p, i + 1)

Count(s, p) == CountFrom(s, p, 1)

\* a list without the later copies of an element it already holds
RECURSIVE Dedup(_)
Dedup(s) ==
    IF s = <<>> THEN <<>>
    ELSE LET front == Dedup(SubSeq(s, 1, Len(s) - 1))
             x == s[Len(s)]
         IN IF x \in Range(front) THEN front ELSE Append(front, x)

\* re.findall(r'#(\w+)', text), lowercased, those longer than 2
HashtagInterests(text) ==
    LET tags  == Hashtags(text)
        at    == DOMAIN tags
        \* the matches from left to right
        nth(k) == CHOOSE i \in at : Cardinality({j \in at : j < i}) = k - 1
        clean == [k \in 1..Cardinality(at) |-> Lower(Tail(tags[nth(k)]))]
    IN SelectSeq(clean, LAMBDA t : Len(t) > 2)

\* the keywords that occur in the lowercased text
KeywordInterests(text_lower) ==
    SelectSeq(AllKeywords, LAMBDA kw : Contains(text_lower, kw))

\* re.sub(r'[^\w]', '', word)
CleanWord(word) == SelectSeq(word, IsWordChar)

\* the capitalized words that do not start a sentence, lowercased
EntityInterests(text) ==
    LET words == Split(text)
        IsEntity(i) ==
            LET clean_word == CleanWord(words[i])
            IN /\ i > 1
               /\ words[i - 1][Len(words[i - 1])] # "."
               /\ clean_word # <<>>
               /\ clean_word[1] \in UpperLetters
               /\ Len(clean_word) > 2
               /\ Lower(clean_word) \notin ENTITY_STOP_WORDS
        picked == SelectSeq([i \in 1..Len(words) |-> i], IsEntity)
    IN [k \in 1..Len(picked) |-> Lower(CleanWord(words[picked[k]]))]

\* the keywords looked up in the text as written, not in its lowercase
Candidates_KeywordsCaseSensitive(text) ==
    Dedup(HashtagInterests(text) \o KeywordInterests(text) \o EntityInterests(text))

\* the elements of the set `interests` in the order they are first added
Candidates(text) ==
    Dedup(HashtagInterests(text) \o KeywordInterests(Lower(text)) \o EntityInterests(text))

InterestScore(fields, interest, text) ==
    2 * Count(text, interest)
    + (IF interest \in DOMAIN fields THEN 5 ELSE 0)
    + (IF Len(interest) > 8 THEN 2 ELSE 0)

\* scored.sort(key=lambda x: x[1], reverse=True): stable
RECURSIVE InsertByScore(_, _)
InsertByScore(x, s) ==
    IF s = <<>> THEN <<x>>
    ELSE IF x[2] > Head(s)[2] THEN <<x>> \o s
    ELSE <<Head(s)>> \o InsertByScore(x, Tail(s))

RECURSIVE SortByScore(_)
SortByScore(s) ==
    IF s = <<>> THEN <<>>
    ELSE InsertByScore(s[Len(s)], SortByScore(SubSeq(s, 1, Len(s) - 1)))

\* fields is self._keyword_to_category
rank_interests(fields, interests, text) ==
    LET scored == [i \in 1..Len(interests) |->
                      <<interests[i], InterestScore(fields, interests[i], text)>>]
        sorted == SortByScore(scored)
    IN [i \in 1..Len(sorted) |-> sorted[i][1]]

MaxInterests == 15

\* self._keyword_to_category.get(interest.lower(), "general")
get_category(fields, interest) == Get(fields, Lower(interest), "general")

\* the cut at 15 made on the candidates, before they are ranked
extract_CutBeforeRanking(text, order) ==
    IF text = <<>> THEN <<>>
    ELSE rank_interests(keyword_to_category, Slice(order, MaxInterests), Lower(text))

\* order is list(interests): the elements of the set in its iteration order
extract(text, order) ==
    IF text = <<>> THEN <<>>
    ELSE Slice(rank_interests(keyword_to_category, order, Lower(text)), MaxInterests)

(***************************************************************************)
(* The iteration orders of a set of strings.  The hash of a string varies  *)
(* with the seed of the process, so every order of a small set occurs in   *)
(* some process; of a larger set the model keeps the insertion order, its  *)
(* reverse and its rotations.                                              *)
(***************************************************************************)
MaxOrdered == 3

RECURSIVE Permutations_(_)
Permutations_(S) ==
    IF S = {} THEN {<<>>}
    ELSE UNION {{<<x>> \o p : p \in Permutations_(S \ {x})} : x \in S}

Reverse(s) == [i \in 1..Len(s) |-> s[Len(s) + 1 - i]]

Rotations(s) == {SubSeq(s, k, Len(s)) \o SubSeq(s, 1, k - 1) : k \in 1..Len(s)}

IterationOrders(inserted) ==
    IF Len(inserted) <= MaxOrdered THEN Permutations_(Range(inserted))
    ELSE {inserted, Reverse(inserted)} \cup Rotations(inserted)

(***************************************************************************)
(* The texts extract is called with: up to MaxWords words separated by     *)
(* single spaces, and some longer ones.                                    *)
(***************************************************************************)
MaxWords == 2

InterestVocabulary == {
    <<"#","a","b","c">>,
    <<"#","a","b","d">>,
    <<"#","A","I">>,
    <<"#","M","a","c","h","i","n","e","L","e","a","r","n","i","n","g">>,
    <<"L","o","v","e">>,
    <<"a","n","d">>,
    <<"w","o","r","k",".">>,
    <<"P","y","t","h","o","n">>,
    <<"T","h","e">>,
    <<"P","a","r","i","s">>,
    <<"a","r","t","i","s","t">>,
    <<"y","o","g","a">>}

LongInterestTexts == {
    <<"L","o","v","e"," ","#","A","I"," ","a","n","d"," ","#","M","a","c","h","i","n","e","L","e","a","r","n","i","n","g"," ","w","o","r","k">>,
    <<"#","a","a","1"," ","#","a","a","2"," ","#","a","a","3"," ","#","a","a","4"," ","#","a","a","5"," ","#","a","a","6"," ","#","a","a","7"," ","#","a","a","8"," ","#","a","a","9"," ","#","b","b","1"," ","#","b","b","2"," ","#","b","b","3"," ","#","b","b","4"," ","#","b","b","5"," ","#","b","b","6"," ","#","b","b","7"," ","y","o","g","a">>,
    <<" "," ">>,
    <<>>}

InterestTexts ==
    {JoinWords(ts) : ts \in TokenSeqs(InterestVocabulary, MaxWords)} \cup LongInterestTexts

Extract ==
    \E text \in InterestTexts :
        \E order \in IterationOrders(Candidates(text)) :
            /\ Idle
            /\ op' = "InterestExtractor.extract"
            /\ input' = text
            /\ result' = extract(text, order)
            /\ UNCHANGED shared

NextInterest == Extract \/ Return

SpecInterest == Init /\ [][NextInterest]_vars

ExtractReturned == op = "InterestExtractor.extract"

\* C9: the list extract returns for a text is the same whatever the iteration
\* order of the intermediate candidate set: the same entries in the same
\* order, ties in ranking score and the cut at 15 entries included.
C9_ExtractIndependentOfSetOrder ==
    ExtractReturned =>
        \A order \in IterationOrders(Candidates(input)) : extract(input, order) = result

(***************************************************************************)
(* One caller using all four analyzers, one call at a time.                *)
(***************************************************************************)
Next == BotAnalyze \/ SentimentAnalyze \/ Score \/ Rank \/ Filter \/ Extract \/ Return

Spec == Init /\ [][Next]_vars

(***************************************************************************)
(* Concurrent calls.  The threads share the analyzers (their class-level   *)
(* tables and instance fields) and the caller's profile list; every other  *)
(* object of a call is local to it.  rank_profiles and filter_profiles     *)
(* take one step for each profile they score, one for the sort and one for *)
(* the filter; the other operations read the shared objects in one step.   *)
(***************************************************************************)
NumThreads == 2

Threads == 1..NumThreads

\* the class-level tables
Tables ==
    [BotDetector       |-> [SPAM_BIO_PHRASES |-> SPAM_BIO_PHRASES,
                            GENERIC_BIOS |-> GENERIC_BIOS],
     SentimentAnalyzer |-> [POSITIVE_WORDS |-> POSITIVE_WORDS,
                            NEGATIVE_WORDS |-> NEGATIVE_WORDS,
                            INTENSIFIERS |-> INTENSIFIERS,
                            NEGATORS |-> NEGATORS,
                            EMOJI_PATTERNS |-> [positive |-> POSITIVE_EMOJI,
                                                negative |-> NEGATIVE_EMOJI,
                                                neutral |-> NEUTRAL_EMOJI]],
     InterestExtractor |-> [INTEREST_CATEGORIES |-> INTEREST_CATEGORIES],
     ProfileScorer     |-> [WEIGHTS |-> WEIGHTS]]

\* the instance fields: only InterestExtractor has one
Fields == [keyword_to_category |-> InterestExtractor_init]

\* the caller's lists: profiles whose weighted sum is no tie of the rounding,
\* in rank order and out of it
Cal == Candidate("cal", 801, [followers |-> 5, following |-> 6000])

Dee == [username |-> "dee"]

Eve == Candidate("eve", 168, [followers |-> 5000, following |-> 500, verified |-> TRUE])

SharedLists == {<<Dee>>, <<Cal, Dee>>, <<Eve, Dee, Cal>>}

\* in tenths
SharedMinScores == {400}

SharedMaxCounts == {1}

SharedInterests == {<<"Y","o","g","a">>}

SharedTexts == {<<"y","o","g","a"," ","P","a","r","i","s">>}

SharedBotProfiles == {[username |-> <<"u","s","e","r","1","2","3","4","5","6">>]}

IdleFrame == [name |-> "none", pc |-> "idle", i |-> 0, scored |-> <<>>]

Frame(name, pc) == [name |-> name, pc |-> pc, i |-> 1, scored |-> <<>>]

InitConc ==
    /\ op = [t \in Threads |-> IdleFrame]
    /\ input = [t \in Threads |-> EmptyDict]
    /\ result = [t \in Threads |-> EmptyDict]
    /\ shared \in {[tables |-> Tables, fields |-> Fields, profiles |-> l] : l \in SharedLists}

\* a call that reads the shared objects in one step is entered and returns
Atomic(t, name, args) ==
    /\ op[t].pc = "idle"
    /\ op' = [op EXCEPT ![t] = Frame(name, "done")]
    /\ input' = [input EXCEPT ![t] = args]
    /\ UNCHANGED shared

CallBotAnalyze(t) ==
    \E profile_data \in SharedBotProfiles :
        /\ Atomic(t, "BotDetector.analyze", profile_data)
        /\ result' = [result EXCEPT ![t] = BotDetector_analyze(profile_data)]

CallSentimentAnalyze(t) ==
    \E text \in SharedTexts :
        /\ Atomic(t, "SentimentAnalyzer.analyze", text)
        /\ result' = [result EXCEPT ![t] = SentimentAnalyzer_analyze(text, FALSE)]

CallExtract(t) ==
    \E text \in SharedTexts :
        \E order \in IterationOrders(Candidates(text)) :
            /\ Atomic(t, "InterestExtractor.extract", text)
            /\ result' = [result EXCEPT ![t] =
                             Slice(rank_interests(shared.fields.keyword_to_category,
                                                  order, Lower(text)), MaxInterests)]

CallGetCategory(t) ==
    \E interest \in SharedInterests :
        /\ Atomic(t, "InterestExtractor.get_category", interest)
        /\ result' = [result EXCEPT ![t] =
                         get_category(shared.fields.keyword_to_category, interest)]

CallScore(t) ==
    \E k \in 1..Len(shared.profiles) :
        /\ Atomic(t, "ProfileScorer.score", shared.profiles[k])
        /\ result' = [result EXCEPT ![t] =
                         ScoreWith(shared.tables.ProfileScorer.WEIGHTS,
                                   shared.profiles[k], FALSE)]

\* rank_profiles(profiles) is entered: scored = []
CallRank(t) ==
    /\ op[t].pc = "idle"
    /\ op' = [op EXCEPT ![t] = Frame("ProfileScorer.rank_profiles", "score")]
    /\ input' = [input EXCEPT ![t] = [profiles |-> shared.profiles]]
    /\ UNCHANGED <<result, shared>>

\* filter_profiles(profiles, min_score, max_count) is entered and calls
\* rank_profiles
CallFilter(t) ==
    \E min_score \in SharedMinScores, max_count \in SharedMaxCounts :
        /\ op[t].pc = "idle"
        /\ op' = [op EXCEPT ![t] = Frame("ProfileScorer.filter_profiles", "score")]
        /\ input' = [input EXCEPT ![t] = [profiles |-> shared.profiles,
                                          min_score |-> min_score,
                                          max_count |-> max_count]]
        /\ UNCHANGED <<result, shared>>

\* one turn of `for profile in profiles`: the profile is scored and a new
\* dict is appended to the local list
ScoreProfile(t) ==
    /\ op[t].pc = "score"
    /\ op[t].i <= Len(shared.profiles)
    /\ LET profile == shared.profiles[op[t].i]
           score_result == ScoreWith(shared.tables.ProfileScorer.WEIGHTS, profile, FALSE)
       IN op' = [op EXCEPT ![t].i = @ + 1,
                           ![t].scored = Append(@, WithQualityScore(profile, score_result))]
    /\ UNCHANGED <<input, result, shared>>

\* the profiles an in-place sort of the caller's list would leave there
CallerProfilesAfterSort_InPlace(profiles, sorted) ==
    [i \in 1..Len(sorted) |->
        [k \in (DOMAIN sorted[i]) \ {"quality_score"} |-> sorted[i][k]]]

\* scored.sort(...) sorts the local list: the caller's list is as it was
CallerProfilesAfterSort(profiles, sorted) == profiles

\* the loop is over: scored.sort(...); rank_profiles returns
SortScored(t) ==
    /\ op[t].pc = "score"
    /\ op[t].i > Len(shared.profiles)
    /\ LET sorted == SortByOverallDesc(op[t].scored)
       IN /\ shared' = [shared EXCEPT !.profiles = CallerProfilesAfterSort(@, sorted)]
          /\ IF op[t].name = "ProfileScorer.rank_profiles"
             THEN /\ op' = [op EXCEPT ![t].pc = "done", ![t].scored = sorted]
                  /\ result' = [result EXCEPT ![t] = sorted]
             ELSE /\ op' = [op EXCEPT ![t].pc = "filter", ![t].scored = sorted]
                  /\ UNCHANGED result
    /\ UNCHANGED input

\* filtered = [p for p in ranked if ...]; return filtered[:max_count]
FilterRanked(t) ==
    /\ op[t].pc = "filter"
    /\ op' = [op EXCEPT ![t].pc = "done"]
    /\ result' = [result EXCEPT ![t] =
                     Slice(SelectSeq(op[t].scored,
                                     LAMBDA p : p.quality_score.overall >= input[t].min_score),
                           input[t].max_count)]
    /\ UNCHANGED <<input, shared>>

\* the caller takes the result
ReturnConc(t) ==
    /\ op[t].pc = "done"
    /\ op' = [op EXCEPT ![t] = IdleFrame]
    /\ input' = [input EXCEPT ![t] = EmptyDict]
    /\ result' = [result EXCEPT ![t] = EmptyDict]
    /\ UNCHANGED shared

NextConc ==
    \E t \in Threads :
        \/ CallBotAnalyze(t)
        \/ CallSentimentAnalyze(t)
        \/ CallExtract(t)
        \/ CallGetCategory(t)
        \/ CallScore(t)
        \/ CallRank(t)
        \/ CallFilter(t)
        \/ ScoreProfile(t)
        \/ SortScored(t)
        \/ FilterRanked(t)
        \/ ReturnConc(t)

SpecConc == InitConc /\ [][NextConc]_vars

NoRounding(profiles) == [i \in 1..Len(profiles) |-> FALSE]

\* what the call returns when no other call runs
Alone(name, args) ==
    CASE name = "BotDetector.analyze" -> BotDetector_analyze(args)
      [] name = "SentimentAnalyzer.analyze" -> SentimentAnalyzer_analyze(args, FALSE)
      [] name = "InterestExtractor.extract" -> extract(args, Candidates(args))
      [] name = "InterestExtractor.get_category" -> get_category(keyword_to_category, args)
      [] name = "ProfileScorer.score" -> ProfileScorer_score(args, FALSE)
      [] name = "ProfileScorer.rank_profiles" ->
            rank_profiles(args.profiles, NoRounding(args.profiles))
      [] name = "ProfileScorer.filter_profiles" ->
            filter_profiles(args.profiles, NoRounding(args.profiles),
                            args.min_score, args.max_count)

TakesList(name) == name \in {"ProfileScorer.rank_profiles", "ProfileScorer.filter_profiles"}

WithVerified(profile_data) ==
    [profile_data EXCEPT !.metadata =
        [k \in (DOMAIN @) \cup {"verified"} |-> IF k = "verified" THEN TRUE ELSE @[k]]]

Unverified(profile_data) ==
    /\ "metadata" \in DOMAIN profile_data
    /\ ~Get(profile_data.metadata, "verified", FALSE)

\* C11: for every analysed profile whose metadata.verified is false, the same
\* profile with verified true gets a metrics sub-score and an overall bot
\* score that are not higher.
C11_VerifiedDoesNotIncreaseMetrics ==
    (BotReturned /\ Unverified(input)) =>
        LET v == BotDetector_analyze(WithVerified(input))
        IN /\ v.component_scores.metrics <= result.component_scores.metrics
           /\ v.score <= result.score

ParsablePosts(posts) ==
    {i \in 1..Len(posts) :
        /\ "timestamp" \in DOMAIN posts[i]
        /\ posts[i].timestamp.kind # "bad"}

OtherTemporalFlags ==
    {"suspiciously_regular_posting", "burst_posting_pattern", "no_sleep_pattern"}

\* C14: with fewer than 3 posts, or fewer than 3 posts whose timestamp parses,
\* the temporal component score is exactly 30, the flags contain
\* insufficient_temporal_data and no other temporal flag.
C14_FewTimestampsScore30 ==
    (BotReturned /\ Cardinality(ParsablePosts(Get(input, "posts", <<>>))) < 3) =>
        /\ result.component_scores.temporal = 30
        /\ "insufficient_temporal_data" \in result.flags
        /\ result.flags \cap OtherTemporalFlags = {}

\* four posts were analysed of which two have a timestamp that parses
C14_Witness ==
    /\ BotReturned
    /\ Len(Get(input, "posts", <<>>)) = 4
    /\ Cardinality(ParsablePosts(input.posts)) = 2
    /\ \E i \in 1..4 : "timestamp" \notin DOMAIN input.posts[i]
    /\ \E i \in 1..4 : "timestamp" \in DOMAIN input.posts[i] /\ input.posts[i].timestamp.kind = "bad"
    /\ result.component_scores.temporal = 30

\* C15: whatever the timestamps of the posts (absent, unparsable, with an
\* offset, without one, mixed), analyze returns a result and does not fail.
C15_TimestampsNeverFail ==
    op = "BotDetector.analyze" => ~result.raised

MetricsRuleFlags ==
    {"suspicious_follower_ratio", "extremely_high_follower_ratio",
     "unrealistic_followers_to_posts", "mass_following",
     "high_activity_low_followers", "no_posts_many_followers"}

\* C16: when metadata.verified is true the metrics sub-score is exactly 5 and
\* verified_account is the only metrics flag, whatever the counts.
C16_VerifiedShortCircuits ==
    (BotReturned /\ Get(Get(input, "metadata", EmptyDict), "verified", FALSE)) =>
        /\ result.component_scores.metrics = 5
        /\ "verified_account" \in result.flags
        /\ result.flags \cap MetricsRuleFlags = {}

\* a verified profile was analysed whose counts meet the rules for bought
\* followers and mass following
C16_Witness ==
    /\ BotReturned
    /\ "metadata" \in DOMAIN input
    /\ DOMAIN input.metadata = {"followers", "following", "posts_count", "verified"}
    /\ input.metadata.verified
    /\ input.metadata.followers > 1000000
    /\ input.metadata.posts_count = 0
    /\ input.metadata.following > 5000
    /\ result.component_scores.metrics = 5

(***************************************************************************)
(* _analyze_bio on a bio and on the bio extended at either end.            *)
(***************************************************************************)
\* the bios extended: empty, shorter than 10 characters, with spam and
\* generic phrases, with six hashtags, at the cap
BioBases ==
    {<<>>,
     <<"h","i">>,
     <<"d","r","e","a","m","e","r">>,
     <<"#","#","#","#","#","#">>,
     <<"c","h","e","c","k">>,
     <<"s","o","f","t","w","a","r","e"," ","e","n","g","i","n","e","e","r">>,
     SPAM_BIO_PHRASES[2],
     SPAM_BIO_PHRASES[1] \o <<" ">> \o GENERIC_BIOS[8],
     SPAM_BIO_PHRASES[5] \o <<" ">> \o SPAM_BIO_PHRASES[10] \o <<" ">> \o SPAM_BIO_PHRASES[12]
        \o <<" ">> \o SPAM_BIO_PHRASES[13] \o <<" ">> \o SPAM_BIO_PHRASES[15]}

\* what is put before or after the bio: nothing, or a spam phrase
BioAffixes == {<<>>} \cup {SPAM_BIO_PHRASES[k] : k \in 1..Len(SPAM_BIO_PHRASES)}

Separators == {<<>>, <<" ">>}

BioAnalyze ==
    \E bio \in BioBases, before \in BioAffixes, after \in BioAffixes, sep \in Separators :
        LET extended == before \o (IF before = <<>> THEN <<>> ELSE sep) \o bio
                        \o (IF after = <<>> THEN <<>> ELSE sep) \o after
        IN /\ Idle
           /\ before = <<>> \/ after = <<>>
           /\ op' = "BotDetector._analyze_bio"
           /\ input' = [bio |-> bio, extended |-> extended]
           /\ result' = [bio |-> analyze_bio(bio), extended |-> analyze_bio(extended)]
           /\ UNCHANGED shared

NextBio == BioAnalyze \/ Return

SpecBio == Init /\ [][NextBio]_vars

BioReturned == op = "BotDetector._analyze_bio"

\* the spam phrases that occur in the bio
SpamMatched(bio) == {k \in 1..Len(SPAM_BIO_PHRASES) : Contains(Lower(bio), SPAM_BIO_PHRASES[k])}

\* the extended bio matches one more spam phrase and every phrase the bio matched
OneMorePhrase(bio, extended) ==
    /\ SpamMatched(bio) \subseteq SpamMatched(extended)
    /\ Cardinality(SpamMatched(extended)) = Cardinality(SpamMatched(bio)) + 1

\* C12: when a bio, empty and short bios included, is extended so that one more
\* spam phrase matches and every phrase that matched still does, the bio
\* sub-score of the extended bio is not lower.
C12_OneMoreSpamPhraseNotLower ==
    (BioReturned /\ OneMorePhrase(input.bio, input.extended)) =>
        result.extended.score >= result.bio.score

\* the same for the bios that are not empty
NonEmptyBioNotLower ==
    (BioReturned /\ input.bio # <<>> /\ OneMorePhrase(input.bio, input.extended)) =>
        result.extended.score >= result.bio.score

(***************************************************************************)
(* The service endpoints (main.py).  A request is a dict of the fields the *)
(* client gave; the optional fields it left out are None in the request    *)
(* object.  A response is the HTTP status with, for 200, the body.         *)
(***************************************************************************)
ProfileMetadataFields ==
    {"followers", "following", "posts_count", "verified", "join_date", "last_active"}

PostFields == {"id", "content", "timestamp", "engagement"}

\* BaseModel.model_dump(): a dict with every field of the model, None under
\* the fields that were not given
model_dump(fields, given) ==
    LET none == fields \ DOMAIN given
    IN IF none = {} THEN given
       ELSE [k \in (DOMAIN given) \cup {NoneKeys} |->
                IF k = NoneKeys THEN none ELSE given[k]]

\* the dict detect_bot hands to BotDetector.analyze
DetectBotProfile(request) ==
    LET posts == Get(request, "posts", <<>>)
        given == [platform |-> request.platform,
                  username |-> request.username,
                  metadata |-> IF "metadata" \in DOMAIN request
                               THEN model_dump(ProfileMetadataFields, request.metadata)
                               ELSE EmptyDict,
                  posts    |-> [i \in 1..Len(posts) |-> model_dump(PostFields, posts[i])]]
    IN IF "bio" \in DOMAIN request
       THEN [k \in (DOMAIN given) \cup {"bio"} |->
                IF k = "bio" THEN request.bio ELSE given[k]]
       ELSE [k \in (DOMAIN given) \cup {NoneKeys} |->
                IF k = NoneKeys THEN {"bio"} ELSE given[k]]

\* POST /detect/bot: any exception of the analysis becomes a 500
detect_bot(request) ==
    LET result_ == BotDetector_analyze(DetectBotProfile(request))
    IN IF result_.raised THEN [status |-> 500]
       ELSE [status |-> 200, success |-> TRUE, data |-> result_]

RequestMetadata ==
    {Restrict(m, keys) :
        m \in [followers : {50, 20000}, following : {1, 5000},
               posts_count : {0, 5}, verified : BOOLEAN],
        keys \in SUBSET {"followers", "following", "posts_count", "verified"}}

BotDetectionRequests ==
    {Restrict([platform |-> "twitter", username |-> u, bio |-> b, metadata |-> m, posts |-> p],
              {"platform", "username"} \cup optional) :
        u \in CoreUsernames, b \in CoreBios, m \in RequestMetadata,
        p \in {<<Post(<<"h","e","l","l","o">>)>>, Timeline(<<"h","e","l","l","o">>, "aware", 0, 3600, 3)},
        optional \in {{"metadata"}, {"bio", "metadata"}, {"metadata", "posts"}, {"posts"}}}

DetectBot ==
    \E request \in BotDetectionRequests :
        /\ Idle
        /\ op' = "detect_bot"
        /\ input' = request
        /\ result' = detect_bot(request)
        /\ UNCHANGED shared

NextService == DetectBot \/ Return

SpecService == Init /\ [][NextService]_vars

\* the request carries metadata that leaves out at least one of the four
\* fields the analysis reads
OmitsMetadataFields(request) ==
    /\ "metadata" \in DOMAIN request
    /\ {"followers", "following", "posts_count", "verified"} \ DOMAIN request.metadata # {}

\* C17: a bot-detection request whose metadata omits some of followers,
\* following, posts_count, verified is analysed with the defaults (0, 0, 0,
\* false) and answered with success, not with a service error.
C17_OmittedMetadataFieldsSucceed ==
    (op = "detect_bot" /\ OmitsMetadataFields(input)) =>
        /\ result.status = 200
        /\ result.success
        /\ result.data.component_scores.metrics =
               analyze_metrics(input.metadata).score

\* only the requests of a verified account get past the missing counts
OmittedFieldsFailUnlessVerified ==
    (op = "detect_bot" /\ "metadata" \in DOMAIN input) =>
        (result.status = 500
            <=> /\ ~Get(input.metadata, "verified", FALSE)
                /\ {"followers", "following", "posts_count"} \ DOMAIN input.metadata # {})

(***************************************************************************)
(* The two analyzers in a row: the score BotDetector.analyze gives a       *)
(* profile is the bot_score of the dict ProfileScorer.score is called      *)
(* with, next to the metadata of the profile.                              *)
(***************************************************************************)
LowFollowerMetadata == [followers |-> 10, following |-> 5000]

AnalyzedProfiles ==
    {[username |-> u, bio |-> b, metadata |-> m] :
        u \in BotUsernames,
        b \in CoreBios \cup {<<>>},
        m \in CoreMetadata \cup {LowFollowerMetadata}}

\* the dict handed to ProfileScorer.score
ScorerInputOf(profile_data, bot_result) ==
    [bot_score |-> bot_result.score, metadata |-> profile_data.metadata]

AnalyzeThenScore ==
    \E profile_data \in AnalyzedProfiles, up \in BOOLEAN :
        LET bot_result == BotDetector_analyze(profile_data)
        IN /\ Idle
           /\ op' = "BotDetector.analyze, ProfileScorer.score"
           /\ input' = profile_data
           /\ result' = [bot |-> bot_result,
                         quality |-> ProfileScorer_score(
                                         ScorerInputOf(profile_data, bot_result), up)]
           /\ UNCHANGED shared

NextAnalyzed == AnalyzeThenScore \/ Return

SpecAnalyzed == Init /\ [][NextAnalyzed]_vars

AnalyzedReturned == op = "BotDetector.analyze, ProfileScorer.score"

\* Scenario D: empty bio, followers 10, following 5000, nothing else
ScenarioD(profile_data) ==
    /\ profile_data.bio = <<>>
    /\ profile_data.metadata = LowFollowerMetadata

\* C18: for every username, the Scenario D profile scored with the bot score
\* BotDetector.analyze computes for it gets an overall of at most 40 and a
\* tier C or D.
C18_ScenarioDOverallAtMost40 ==
    (AnalyzedReturned /\ ScenarioD(input)) =>
        /\ result.quality.overall <= 400
        /\ result.quality.tier \in {"C", "D"}

\* what the Scenario D profile does get: a bot score from 28 to 43, an
\* overall above 40 and below 46, and tier C
ScenarioDScoresAbove40 ==
    (AnalyzedReturned /\ ScenarioD(input)) =>
        /\ result.bot.score \in 280..430
        /\ result.bot.component_scores.metrics = 40
        /\ result.quality.overall \in 401..459
        /\ result.quality.tier = "C"

(***************************************************************************)
(* ProfileScorer.score on the profile of a verified account with 5000      *)
(* followers and a low bot score.                                          *)
(***************************************************************************)
\* bot_score in [0,5], verified, followers 5000, following 500, and neither
\* posts_count nor interests, target interests or sentiment
HighQuality(profile_data) ==
    /\ "bot_score" \in DOMAIN profile_data
    /\ profile_data.bot_score \in 0..50
    /\ Get(profile_data, "metadata", EmptyDict)
           = [followers |-> 5000, following |-> 500, verified |-> TRUE]
    /\ Get(profile_data, "interests", <<>>) = <<>>
    /\ Get(profile_data, "target_interests", <<>>) = <<>>
    /\ Get(profile_data, "sentiment", EmptyDict) = EmptyDict

\* C19: for every bot_score in [0,5], a verified profile with 5000 followers
\* and 500 following gets an overall of at least 70 and tier S or A.
C19_HighQualityOverallAtLeast70 ==
    (ScoreReturned /\ HighQuality(input)) =>
        /\ result.overall >= 700
        /\ result.tier \in {"S", "A"}

\* what such a profile does get: engagement 85, relevance 30, accessibility
\* 30, an overall from 63.2 to 64.8 and tier B
HighQualityScoresBelow65 ==
    (ScoreReturned /\ HighQuality(input)) =>
        /\ result.components.engagement = 850
        /\ result.components.relevance = 300
        /\ result.components.accessibility = 300
        /\ result.overall \in 632..648
        /\ result.tier = "B"

(***************************************************************************)
(* BotDetector.analyze on accounts that follow many and are followed by    *)
(* few.                                                                    *)
(***************************************************************************)
\* an unverified account that follows at least 100 times as many accounts
\* as follow it
FollowsHundredfold(profile_data) ==
    /\ Unverified(profile_data)
    /\ Get(profile_data.metadata, "following", 0) > 0
    /\ Get(profile_data.metadata, "following", 0)
           >= 100 * Get(profile_data.metadata, "followers", 0)

\* C20: an unverified profile whose following is at least 100 times its
\* followers (followers 50, following 5000 for one) gets a score above 20
\* and the flag suspicious_ratio.
C20_ExtremeRatioFlagged ==
    (BotReturned /\ FollowsHundredfold(input)) =>
        /\ result.score > 200
        /\ "suspicious_ratio" \in result.flags

\* what the ratio rule does: it fires strictly above 100 times, adds 40 to
\* the metrics sub-score and puts the flag suspicious_follower_ratio
RatioRuleIsStrict ==
    (BotReturned /\ Unverified(input)) =>
        LET followers == Get(input.metadata, "followers", 0)
            following == Get(input.metadata, "following", 0)
        IN /\ "suspicious_ratio" \notin result.flags
           /\ "suspicious_follower_ratio" \in result.flags
                  <=> (following > 0 /\ following > 100 * followers)
           /\ "suspicious_follower_ratio" \in result.flags
                  => result.component_scores.metrics >= 40

\* followers 50, following 5000: no rule of the metrics fires
HundredfoldExactly ==
    /\ BotReturned
    /\ Unverified(input)
    /\ Get(input.metadata, "followers", 0) = 50
    /\ Get(input.metadata, "following", 0) = 5000
    /\ Get(input.metadata, "posts_count", 0) = 5
    /\ result.component_scores.metrics = 0
    /\ result.score <= 200

(***************************************************************************)
(* SentimentAnalyzer.analyze on single texts, and the parts of its result. *)
(***************************************************************************)
ScenarioCText ==
    <<"I"," ","a","b","s","o","l","u","t","e","l","y"," ","l","o","v","e"," ","t","h","i","s"," ","a","m","a","z","i","n","g"," ","p","r","o","d","u","c","t","!","!","!">>

\* C21: Scenario C, the text "I absolutely love this amazing product!!!"
\* gets the label positive and an overall above 0.2.
C21_ScenarioCPositive ==
    (SentimentReturned /\ input = ScenarioCText) =>
        /\ result.label = "positive"
        /\ result.overall > 200

\* the text was analysed: lexicon (0.8 * 1.8 + 0.9) / 2, three exclamation
\* marks, no emoji
C21_Witness ==
    /\ SentimentReturned
    /\ input = ScenarioCText
    /\ result.breakdown.lexicon = 1170
    /\ result.breakdown.pattern = 150
    /\ result.breakdown.emoji = 0
    /\ result.overall = 830

AllAbstain(text) == \A k \in 1..3 : Signals(Strip(text))[k].none

\* C26: every result of SentimentAnalyzer.analyze, the one for an empty or
\* whitespace-only text included, has overall 0 when all three signals
\* abstain, and a breakdown with the three entries lexicon, emoji and pattern,
\* each the score of its signal or 0 when the signal abstains.
C26_BreakdownHasThreeEntries ==
    SentimentReturned =>
        /\ AllAbstain(input) => result.overall = 0
        /\ DOMAIN result.breakdown = {"lexicon", "emoji", "pattern"}
        /\ result.breakdown.lexicon = BreakdownEntry(Signals(Strip(input))[1])
        /\ result.breakdown.emoji = BreakdownEntry(Signals(Strip(input))[2])
        /\ result.breakdown.pattern = BreakdownEntry(Signals(Strip(input))[3])

\* the same for the texts that are not empty after strip(), and for the
\* others an empty breakdown
BreakdownEmptyForEmptyText ==
    SentimentReturned =>
        /\ AllAbstain(input) => result.overall = 0
        /\ IF Strip(input) = <<>>
           THEN result.breakdown = EmptyDict /\ result.confidence = 0
           ELSE /\ DOMAIN result.breakdown = {"lexicon", "emoji", "pattern"}
                /\ result.breakdown.lexicon = BreakdownEntry(Signals(Strip(input))[1])
                /\ result.breakdown.emoji = BreakdownEntry(Signals(Strip(input))[2])
                /\ result.breakdown.pattern = BreakdownEntry(Signals(Strip(input))[3])

\* a text that is not empty and on which all three signals abstain
AllAbstainOnText ==
    /\ SentimentReturned
    /\ Strip(input) # <<>>
    /\ AllAbstain(input)
    /\ result.breakdown = [lexicon |-> 0, emoji |-> 0, pattern |-> 0]

(***************************************************************************)
(* The vowel/consonant rule of BotDetector._analyze_username.              *)
(***************************************************************************)
\* vowels / max(consonants, 1) < 0.1
RatioBelowTenth(u) == 10 * Vowels(u) < Max(Consonants(u), 1)

\* the username sub-score with the +15 of the rule added when add is true
UsernameScoreWith(u, add) ==
    ClampScore(25 * Cardinality(UsernamePatternFlags(u))
               + (IF Len(u) < 3 THEN 20 ELSE IF Len(u) > 25 THEN 10 ELSE 0)
               + (IF \A i \in 1..Len(u) : ~IsAlpha(u[i]) THEN 30 ELSE 0)
               + (IF add THEN 15 ELSE 0))

\* C28: for every non-empty username the sub-score includes the +15 of the
\* unusual character distribution exactly when vowels / max(consonants, 1)
\* is below 0.1, usernames without any letter (ratio 0) included.
C28_UnusualDistributionByRatio ==
    (BotReturned /\ Get(input, "username", <<>>) # <<>>) =>
        /\ "unusual_character_distribution" \in result.flags
               <=> RatioBelowTenth(input.username)
        /\ result.component_scores.username
               = UsernameScoreWith(input.username, RatioBelowTenth(input.username))

\* what the code does: the rule needs a consonant as well
UnusualDistributionNeedsConsonant ==
    (BotReturned /\ Get(input, "username", <<>>) # <<>>) =>
        LET add == Consonants(input.username) > 0 /\ RatioBelowTenth(input.username)
        IN /\ "unusual_character_distribution" \in result.flags <=> add
           /\ result.component_scores.username = UsernameScoreWith(input.username, add)

\* a username of digits only: ratio 0, and no increment
DigitsOnlyUsername ==
    /\ BotReturned
    /\ Get(input, "username", <<>>) = <<"1","2">>
    /\ result.component_scores.username = 50
    /\ "unusual_character_distribution" \notin result.flags

\* a username of consonants only: the increment is there
ConsonantsOnlyUsername ==
    /\ BotReturned
    /\ Get(input, "username", <<>>) = <<"b","c","d","f","g","h","j","k","l","m","n","p">>
    /\ "unusual_character_distribution" \in result.flags

(***************************************************************************)
(* Negation in the lexicon signal, seen on the texts with one word of the  *)
(* lexicon: the signal is then the score of that word over                 *)
(* max(1, len(words) / 5).                                                 *)
(***************************************************************************)
NegatorWords == {
    <<"n","o","t">>,
    <<"n","o">>,
    <<"n","e","v","e","r">>,
    <<"n","o","n","e">>,
    <<"n","o","t","h","i","n","g">>,
    <<"n","e","i","t","h","e","r">>,
    <<"n","o","w","h","e","r","e">>}

LexiconWords(text) == Words(Lower(Strip(text)))

MatchedWords(text) ==
    {i \in 1..Len(LexiconWords(text)) : InLexicon(LexiconWords(text)[i])}

\* the lexicon entry of the breakdown for a text whose only matched word is
\* words[i], the word being negated or not
SingleWordLexicon(words, i, negated) ==
    LET value == IF HasKey(POSITIVE_WORDS, words[i]) THEN Lookup(POSITIVE_WORDS, words[i])
                 ELSE Lookup(NEGATIVE_WORDS, words[i])
    IN Round3(Frac((IF negated THEN -1 ELSE 2) * value * Intensity(words, i),
                   40 * Max(5, Len(words))))

\* C29: the score of a matched word is sign-flipped and halved if and only if
\* the token just before it is one of the negator words not, no, never, none,
\* nothing, neither, nowhere; any other token before it leaves the sign.
C29_NegatedOnlyAfterNegatorWord ==
    (SentimentReturned /\ Cardinality(MatchedWords(input)) = 1) =>
        LET words == LexiconWords(input)
            i     == CHOOSE j \in MatchedWords(input) : TRUE
        IN result.breakdown.lexicon
               = SingleWordLexicon(words, i, i > 1 /\ words[i - 1] \in NegatorWords)

\* what the code does: the token before negates when a negator is a
\* substring of it
NegatedAfterTokenContainingNegator ==
    (SentimentReturned /\ Cardinality(MatchedWords(input)) = 1) =>
        LET words == LexiconWords(input)
            i     == CHOOSE j \in MatchedWords(input) : TRUE
        IN result.breakdown.lexicon
               = SingleWordLexicon(words, i,
                     i > 1 /\ \E neg \in NegatorWords : Contains(words[i - 1], neg))

\* "know good": the word before good is no negator word, and good is negated
NegatedAfterKnow ==
    /\ SentimentReturned
    /\ input = <<"k","n","o","w"," ","g","o","o","d">>
    /\ result.breakdown.lexicon = -300
    /\ result.label = "negative"

\* "not good": negated, as stated
NegatedAfterNot ==
    /\ SentimentReturned
    /\ input = <<"n","o","t"," ","g","o","o","d">>
    /\ result.breakdown.lexicon = -300

(***************************************************************************)
(* The agreement bonus of SentimentAnalyzer._calculate_confidence.         *)
(***************************************************************************)
PresentSignals(text) == {k \in 1..3 : ~Signals(Strip(text))[k].none}

\* the confidence, in hundredths, with the agreement bonus or without it
ConfidenceWithBonus(text, bonus) ==
    LET word_count == Len(Split(Strip(text)))
        c == 50
             + (IF word_count > 50 THEN 20
                ELSE IF word_count > 20 THEN 10
                ELSE IF word_count < 5 THEN -10 ELSE 0)
             + 10 * Cardinality(PresentSignals(text))
             + (IF bonus THEN 15 ELSE 0)
    IN Min(Max(c, 10), 100)

\* the result carries the bonus
HasAgreementBonus ==
    /\ result.confidence = ConfidenceWithBonus(input, TRUE)
    /\ result.confidence # ConfidenceWithBonus(input, FALSE)

\* two present signals are both strictly positive or both strictly negative
TwoSignalsAgree(text) ==
    \E j, k \in PresentSignals(text) :
        /\ j # k
        /\ \/ Signals(Strip(text))[j].num > 0 /\ Signals(Strip(text))[k].num > 0
           \/ Signals(Strip(text))[j].num < 0 /\ Signals(Strip(text))[k].num < 0

\* C30: for every non-empty text the confidence includes the +0.15 agreement
\* bonus only when at least two present signals agree in sign, both strictly
\* positive or both strictly negative.
C30_BonusOnlyWhenTwoSignalsAgree ==
    (SentimentReturned /\ Strip(input) # <<>> /\ HasAgreementBonus) =>
        TwoSignalsAgree(input)

\* what the code does: with two or more present signals the bonus is given
\* unless two of them have opposite signs; signals that are 0 are left out
BonusUnlessSignsDiffer ==
    (SentimentReturned /\ Strip(input) # <<>>) =>
        /\ result.confidence \in {ConfidenceWithBonus(input, TRUE),
                                  ConfidenceWithBonus(input, FALSE)}
        /\ HasAgreementBonus
               <=> /\ Cardinality(PresentSignals(input)) >= 2
                   /\ ~\E j, k \in PresentSignals(input) :
                          /\ Signals(Strip(input))[j].num > 0
                          /\ Signals(Strip(input))[k].num < 0

\* the bonus with one signal above 0 and the other at 0
BonusWithOneNonzeroSignal ==
    /\ SentimentReturned
    /\ input = <<"g","o","o","d"," ","<think>">>
    /\ result.breakdown = [lexicon |-> 600, emoji |-> 0, pattern |-> 0]
    /\ result.confidence = 75

\* the bonus with both present signals at 0
BonusWithNoNonzeroSignal ==
    /\ SentimentReturned
    /\ input = <<"x"," ","<think>">>
    /\ result.breakdown = [lexicon |-> 0, emoji |-> 0, pattern |-> 0]
    /\ result.confidence = 75

(***************************************************************************)
(* InterestExtractor.extract: Scenario E, and the shape of every list it   *)
(* returns.                                                                *)
(***************************************************************************)
ScenarioEText ==
    <<"L","o","v","e"," ","#","A","I"," ","a","n","d"," ","#","M","a","c","h","i","n","e","L","e","a","r","n","i","n","g"," ","w","o","r","k">>

\* C22: Scenario E, extract on "Love #AI and #MachineLearning work" returns a
\* list that holds both ai and machinelearning.
C22_ScenarioEHashtags ==
    (ExtractReturned /\ input = ScenarioEText) =>
        /\ <<"a","i">> \in Range(result)
        /\ <<"m","a","c","h","i","n","e","l","e","a","r","n","i","n","g">> \in Range(result)

\* the text was analysed: the tag AI is too short for a hashtag interest, ai
\* is there as the keyword found in the lowercased text
C22_Witness ==
    /\ ExtractReturned
    /\ input = ScenarioEText
    /\ <<"a","i">> \notin Range(HashtagInterests(input))
    /\ <<"a","i">> \in Range(KeywordInterests(Lower(input)))
    /\ Len(result) = 3
    /\ Range(result) = {<<"a","i">>, <<"l","e","a","r","n","i","n","g">>,
                        <<"m","a","c","h","i","n","e","l","e","a","r","n","i","n","g">>}

\* the ranking score of a candidate of the text analysed
RankingScore(interest) == InterestScore(keyword_to_category, interest, Lower(input))

\* C23: the list extract returns has at most 15 entries, none of them twice,
\* all lowercase, in the order of non-increasing ranking score (2 * count in
\* the lowercased text, + 5 for a category keyword, + 2 for more than 8
\* characters), and no candidate cut off has a higher score than one returned.
C23_ExtractRankedAndCapped ==
    ExtractReturned =>
        /\ Len(result) <= 15
        /\ \A i, j \in 1..Len(result) : i # j => result[i] # result[j]
        /\ \A i \in 1..Len(result) : result[i] = Lower(result[i])
        /\ \A i, j \in 1..Len(result) :
               i < j => RankingScore(result[i]) >= RankingScore(result[j])
        /\ Range(result) \subseteq Range(Candidates(input))
        /\ \A left \in Range(Candidates(input)) \ Range(result) :
               \A kept \in Range(result) : RankingScore(left) <= RankingScore(kept)

\* a text with more than 15 candidates of different scores was analysed
C23_Witness ==
    /\ ExtractReturned
    /\ Len(Candidates(input)) > 15
    /\ Len(result) = 15
    /\ RankingScore(result[1]) > RankingScore(result[15])
    /\ Range(Candidates(input)) \ Range(result) # {}

(***************************************************************************)
(* InterestExtractor.extract_topics.  A topic is a category, its matches   *)
(* (keyword and count, at most 5) and a confidence in hundredths.          *)
(***************************************************************************)
\* the matches of category k in the order of its keywords: those whose
\* text_lower.count(keyword) is above 0
CategoryMatches(k, text_lower) ==
    SelectSeq([j \in 1..Len(INTEREST_CATEGORIES[k].keywords) |->
                  [keyword |-> INTEREST_CATEGORIES[k].keywords[j],
                   count   |-> Count(text_lower, INTEREST_CATEGORIES[k].keywords[j])]],
              LAMBDA match : match.count > 0)

\* sorted(s, key=..., reverse=True) and list.sort(key=..., reverse=True) for
\* a list of pairs <<element, key>>: stable
SortedByKey(pairs) ==
    LET sorted == SortByScore(pairs)
    IN [i \in 1..Len(sorted) |-> sorted[i][1]]

\* the topic appended for category k
Topic(k, text_lower) ==
    LET matches == CategoryMatches(k, text_lower)
    IN [category   |-> INTEREST_CATEGORIES[k].category,
        matches    |-> Slice(SortedByKey([i \in 1..Len(matches) |->
                                             <<matches[i], matches[i].count>>]), 5),
        \* round(min(len(matches) / 5, 1.0), 2)
        confidence |-> Min(20 * Len(matches), 100)]

\* the list `topics` before it is sorted
TopicsFound(text_lower) ==
    LET found == SelectSeq([k \in 1..Len(INTEREST_CATEGORIES) |-> k],
                           LAMBDA k : CategoryMatches(k, text_lower) # <<>>)
    IN [i \in 1..Len(found) |-> Topic(found[i], text_lower)]

\* the cut at 5 made before the topics are sorted
extract_topics_CutBeforeSort(text) ==
    IF text = <<>> THEN <<>>
    ELSE LET topics == Slice(TopicsFound(Lower(text)), 5)
         IN SortedByKey([i \in 1..Len(topics) |-> <<topics[i], topics[i].confidence>>])

extract_topics(text) ==
    IF text = <<>> THEN <<>>
    ELSE LET topics == TopicsFound(Lower(text))
         IN Slice(SortedByKey([i \in 1..Len(topics) |->
                                  <<topics[i], topics[i].confidence>>]), 5)

TopicVocabulary == {
    <<"y","o","g","a">>,
    <<"m","u","s","i","c">>,
    <<"S","t","a","r","t","u","p">>,
    <<"p","y","t","h","o","n">>,
    <<"a","r","t","i","s","t">>,
    <<"t","r","a","v","e","l">>,
    <<"s","c","i","e","n","c","e">>,
    <<"c","l","i","m","a","t","e">>,
    <<"g","y","m">>,
    <<"h","e","l","l","o">>}

ManyTopicsText ==
    <<"a","i"," ","a","i"," ","a","i"," ","m","l"," ","m","l"," ","a","p","i"," ","a","p","p"," ","i","o","s"," ","n","o","d","e"," ","v","c"," ","d","j"," ","g","y","m"," ","t","v"," ","f","o","o","d"," ","c","h","e","f"," ","w","i","n","e"," ","m","a","t","h"," ","s","o","c","i","a","l">>

TopicTexts ==
    {JoinWords(ts) : ts \in TokenSeqs(TopicVocabulary, MaxWords)}
    \cup {ManyTopicsText,
          <<"s","t","a","r","t","u","p"," ","y","o","g","a"," ","g","y","m"," ","f","i","t","n","e","s","s">>,
          <<" "," ">>}

ExtractTopics ==
    \E text \in TopicTexts :
        /\ Idle
        /\ op' = "InterestExtractor.extract_topics"
        /\ input' = text
        /\ result' = extract_topics(text)
        /\ UNCHANGED shared

NextTopics == ExtractTopics \/ Return

SpecTopics == Init /\ [][NextTopics]_vars

TopicsReturned == op = "InterestExtractor.extract_topics"

\* the keywords of category k that occur in the lowercased text
MatchedKeywords(k, text) ==
    {kw \in Range(INTEREST_CATEGORIES[k].keywords) : Contains(Lower(text), kw)}

CategoryIndex(category) ==
    CHOOSE k \in 1..Len(INTEREST_CATEGORIES) : INTEREST_CATEGORIES[k].category = category

\* min(distinct matched keywords / 5, 1.0), in hundredths
TopicConfidence(k, text) == Min(20 * Cardinality(MatchedKeywords(k, text)), 100)

\* C24: extract_topics returns at most 5 topics, each for a distinct category
\* with a matching keyword, with confidence min(distinct matched keywords / 5,
\* 1.0), with at most 5 matches in the order of non-increasing count, the
\* topics in the order of non-increasing confidence; no category cut off has
\* a higher confidence than one returned.
C24_TopicsRankedAndCapped ==
    TopicsReturned =>
        /\ Len(result) <= 5
        /\ \A i, j \in 1..Len(result) : i # j => result[i].category # result[j].category
        /\ \A i \in 1..Len(result) :
               LET topic == result[i]
                   k     == CategoryIndex(topic.category)
               IN /\ \E c \in 1..Len(INTEREST_CATEGORIES) :
                         INTEREST_CATEGORIES[c].category = topic.category
                  /\ MatchedKeywords(k, input) # {}
                  /\ topic.confidence = TopicConfidence(k, input)
                  /\ topic.confidence \in 0..100
                  /\ Len(topic.matches) <= 5
                  /\ \A m \in 1..Len(topic.matches) :
                         /\ topic.matches[m].keyword \in MatchedKeywords(k, input)
                         /\ topic.matches[m].count
                                = Count(Lower(input), topic.matches[m].keyword)
                  /\ \A m, n \in 1..Len(topic.matches) :
                         m < n => topic.matches[m].count >= topic.matches[n].count
        /\ \A i, j \in 1..Len(result) :
               i < j => result[i].confidence >= result[j].confidence
        /\ \A k \in 1..Len(INTEREST_CATEGORIES) :
               (/\ MatchedKeywords(k, input) # {}
                /\ \A i \in 1..Len(result) :
                       result[i].category # INTEREST_CATEGORIES[k].category)
               => /\ Len(result) = 5
                  /\ \A i \in 1..Len(result) :
                         TopicConfidence(k, input) <= result[i].confidence

\* a text with keywords of all eight categories: the sixth category comes
\* second, and the first topic has more than five matched keywords
C24_Witness ==
    /\ TopicsReturned
    /\ input = ManyTopicsText
    /\ Len(result) = 5
    /\ Cardinality({k \in 1..Len(INTEREST_CATEGORIES) : MatchedKeywords(k, input) # {}}) = 8
    /\ result[1].category = "technology"
    /\ result[1].confidence = 100
    /\ Cardinality(MatchedKeywords(1, input)) > 5
    /\ result[1].matches[1] = [keyword |-> <<"a","i">>, count |-> 3]
    /\ result[2].category = "lifestyle"
    /\ result[2].confidence = 60

(***************************************************************************)
(* InterestExtractor.find_common_interests.                                *)
(***************************************************************************)
\* the characters of the category names, for f"[{cat}]"
CategoryText ==
    [technology |-> <<"t","e","c","h","n","o","l","o","g","y">>,
     business |-> <<"b","u","s","i","n","e","s","s">>,
     creative |-> <<"c","r","e","a","t","i","v","e">>,
     sports |-> <<"s","p","o","r","t","s">>,
     entertainment |-> <<"e","n","t","e","r","t","a","i","n","m","e","n","t">>,
     lifestyle |-> <<"l","i","f","e","s","t","y","l","e">>,
     education |-> <<"e","d","u","c","a","t","i","o","n">>,
     social |-> <<"s","o","c","i","a","l">>]

Marker(cat) == <<"[">> \o CategoryText[cat] \o <<"]">>

\* set(i.lower() for i in interests)
LowerSet(interests) == {Lower(interests[i]) : i \in 1..Len(interests)}

\* set(self.get_category(i) for i in interests)
CategorySet(interests) ==
    {get_category(keyword_to_category, interests[i]) : i \in 1..Len(interests)}

\* common is list(set1 & set2) in the iteration order of that set; the
\* markers follow in the iteration order of categories1 & categories2
find_common_interests(interests1, interests2, common, categories) ==
    LET named == SelectSeq(categories, LAMBDA cat : cat # "general")
    IN common \o [i \in 1..Len(named) |-> Marker(named[i])]

MaxListed == 2

CommonVocabulary == {
    <<"p","y","t","h","o","n">>,
    <<"P","y","t","h","o","n">>,
    <<"a","i">>,
    <<"y","o","g","a">>,
    <<"h","e","l","l","o">>}

ListedInterests == TokenSeqs(CommonVocabulary, MaxListed)

FindCommon ==
    \E interests1 \in ListedInterests, interests2 \in ListedInterests :
        \E common \in Permutations_(LowerSet(interests1) \cap LowerSet(interests2)),
           categories \in Permutations_(CategorySet(interests1) \cap CategorySet(interests2)) :
            /\ Idle
            /\ op' = "InterestExtractor.find_common_interests"
            /\ input' = [interests1 |-> interests1, interests2 |-> interests2]
            /\ result' = find_common_interests(interests1, interests2, common, categories)
            /\ UNCHANGED shared

NextCommon == FindCommon \/ Return

SpecCommon == Init /\ [][NextCommon]_vars

CommonReturned == op = "InterestExtractor.find_common_interests"

ExactMatches(a, b) == LowerSet(a) \cap LowerSet(b)

\* a and b hold interests of category c that are not the same interest
SharedBeyondOverlap(a, b, c) ==
    \E i \in 1..Len(a), j \in 1..Len(b) :
        /\ get_category(keyword_to_category, a[i]) = c
        /\ get_category(keyword_to_category, b[j]) = c
        /\ Lower(a[i]) # Lower(b[j])

NamedCategories == {INTEREST_CATEGORIES[k].category : k \in 1..Len(INTEREST_CATEGORIES)}

\* the list holds every member of the set once and nothing else
ListsOnce(list, set) ==
    /\ Range(list) = set
    /\ Len(list) = Cardinality(set)

\* C25: find_common_interests(a, b) returns each case-insensitive exact match
\* once, plus one [category] marker for each non-general category in which a
\* and b hold interests that are not the same interest, and no other marker:
\* lists whose only shared-category interests are the same keyword get none.
C25_MarkersOnlyBeyondExactOverlap ==
    CommonReturned =>
        ListsOnce(result,
                  ExactMatches(input.interests1, input.interests2)
                  \cup {Marker(c) : c \in {k \in NamedCategories :
                            SharedBeyondOverlap(input.interests1, input.interests2, k)}})

\* what the code does: a marker for every non-general category both lists
\* have an interest of, the same interest or not
MarkerForEverySharedCategory ==
    CommonReturned =>
        ListsOnce(result,
                  ExactMatches(input.interests1, input.interests2)
                  \cup {Marker(c) : c \in (CategorySet(input.interests1)
                                           \cap CategorySet(input.interests2))
                                          \ {"general"}})

\* the same single keyword on both sides, returned with a marker
SameKeywordGetsMarker ==
    /\ CommonReturned
    /\ input = [interests1 |-> <<<<"p","y","t","h","o","n">>>>,
                interests2 |-> <<<<"P","y","t","h","o","n">>>>]
    /\ result = <<<<"p","y","t","h","o","n">>,
                  <<"[","t","e","c","h","n","o","l","o","g","y","]">>>>

\* different keywords of one category, returned as a marker alone
DifferentKeywordsGetMarker ==
    /\ CommonReturned
    /\ input = [interests1 |-> <<<<"p","y","t","h","o","n">>>>,
                interests2 |-> <<<<"a","i">>>>]
    /\ result = <<<<"[","t","e","c","h","n","o","l","o","g","y","]">>>>

(***************************************************************************)
(* POST /analyze/profile (main.py): the four analyzers on one request and  *)
(* the two labels derived from its texts and posts.                        *)
(***************************************************************************)
CasualWords == {
    <<"l","o","l">>,
    <<"o","m","g">>,
    <<"t","b","h">>,
    <<"n","g","l">>,
    <<"f","r">>,
    <<"b","t","w">>,
    <<"d","m">>,
    <<"h","a","h","a">>}

FormalWords == {
    <<"t","h","e","r","e","f","o","r","e">>,
    <<"h","o","w","e","v","e","r">>,
    <<"f","u","r","t","h","e","r","m","o","r","e">>,
    <<"r","e","g","a","r","d","i","n","g">>,
    <<"s","i","n","c","e","r","e","l","y">>,
    <<"p","r","o","f","e","s","s","i","o","n","a","l">>,
    <<"o","p","p","o","r","t","u","n","i","t","y">>}

detect_communication_style(text) ==
    IF text = <<>> THEN "balanced"
    ELSE LET text_lower   == Lower(text)
             casual_count == Cardinality({word \in CasualWords : Contains(text_lower, word)})
             formal_count == Cardinality({word \in FormalWords : Contains(text_lower, word)})
             emoji_count  == CountIn(text, HighChars)
         IN IF casual_count > formal_count * 2 \/ emoji_count > 3 THEN "casual"
            ELSE IF formal_count > casual_count * 2 THEN "formal"
            ELSE "balanced"

\* posts is <<>> for a request without posts as for one with an empty list:
\* `not posts` holds of None and of []
analyze_activity_pattern(posts) ==
    IF posts = <<>> THEN "unknown"
    ELSE LET count == Len(posts)
         IN IF count > 50 THEN "very_active"
            ELSE IF count > 20 THEN "active"
            ELSE IF count > 5 THEN "moderate"
            ELSE IF count > 0 THEN "occasional"
            ELSE "inactive"

\* " ".join(text_content): the bio, if it is not empty, and the content of
\* every post
CombinedText(request) ==
    LET bio   == Get(request, "bio", <<>>)
        posts == Get(request, "posts", <<>>)
    IN JoinWords((IF bio # <<>> THEN <<bio>> ELSE <<>>)
                 \o [i \in 1..Len(posts) |-> posts[i].content])

\* ProfileScorer.score compares the three counts with numbers: a count that
\* is None raises TypeError
ScoreRaises(metadata) ==
    \E k \in {"followers", "following", "posts_count"} : IsNone(metadata, k)

\* POST /analyze/profile: any exception becomes a 500
analyze_profile(request, order, beyond, up) ==
    LET combined_text == CombinedText(request)
        profile       == DetectBotProfile(request)
        bot_result    == BotDetector_analyze(profile)
        sentiment_result == IF combined_text # <<>>
                            THEN SentimentAnalyzer_analyze(combined_text, beyond)
                            ELSE [overall |-> 0, confidence |-> 0]
        interests     == IF combined_text # <<>> THEN extract(combined_text, order)
                         ELSE <<>>
    IN IF bot_result.raised \/ ScoreRaises(profile.metadata) THEN [status |-> 500]
       ELSE [status |-> 200,
             success |-> TRUE,
             data |-> [bot_detection |-> bot_result,
                       sentiment |-> sentiment_result,
                       interests |-> interests,
                       quality_score |-> ProfileScorer_score(
                                             [bot_score |-> bot_result.score,
                                              sentiment |-> sentiment_result,
                                              interests |-> interests,
                                              metadata  |-> profile.metadata], up),
                       communication_style |-> detect_communication_style(combined_text),
                       activity_pattern |-> analyze_activity_pattern(
                                                Get(request, "posts", <<>>))]]

\* the numbers of posts on both sides of every tier
RequestPostCounts == {0, 1, 5, 6, 20, 21, 50, 51}

\* n posts, the first of them with a text
PostsOf(n) == [i \in 1..n |-> Post(IF i = 1 THEN <<"g","o","o","d">> ELSE <<>>)]

AnalysisBios == {
    <<>>,
    <<"l","o","l"," ","o","m","g">>,
    <<"s","o","f","t","w","a","r","e"," ","e","n","g","i","n","e","e","r">>}

AnalysisMetadata == {
    [followers |-> 50, following |-> 1, posts_count |-> 5, verified |-> FALSE],
    [followers |-> 50, following |-> 1],
    [verified |-> TRUE]}

ProfileAnalysisRequests ==
    {Restrict([platform |-> "twitter", username |-> u, bio |-> b, metadata |-> m,
               posts |-> PostsOf(n)],
              {"platform", "username"} \cup optional) :
        u \in CoreUsernames, b \in AnalysisBios, m \in AnalysisMetadata,
        n \in RequestPostCounts, optional \in SUBSET {"bio", "metadata", "posts"}}

AnalyzeProfile ==
    \E request \in ProfileAnalysisRequests, beyond \in BOOLEAN, up \in BOOLEAN :
        \E order \in IterationOrders(Candidates(CombinedText(request))) :
            /\ Idle
            /\ op' = "analyze_profile"
            /\ input' = request
            /\ result' = analyze_profile(request, order, beyond, up)
            /\ UNCHANGED shared

NextProfile == AnalyzeProfile \/ Return

SpecProfile == Init /\ [][NextProfile]_vars

ProfileAnalysed == op = "analyze_profile" /\ result.status = 200

\* the label of the tier the number of posts lies in
ActivityTier(count) ==
    IF count > 50 THEN "very_active"
    ELSE IF count > 20 THEN "active"
    ELSE IF count > 5 THEN "moderate"
    ELSE IF count > 0 THEN "occasional"
    ELSE "inactive"

\* C27: every answered full-profile-analysis request, one without posts or
\* with an empty post list included, carries an activity_pattern that is one
\* of inactive, occasional, moderate, active, very_active, chosen by the
\* number of posts.
C27_ActivityPatternByPostCount ==
    ProfileAnalysed =>
        /\ result.data.activity_pattern
               \in {"inactive", "occasional", "moderate", "active", "very_active"}
        /\ result.data.activity_pattern = ActivityTier(Len(Get(input, "posts", <<>>)))

\* what the code does: without a post the label is unknown, and inactive is
\* never returned
NoPostsGetUnknown ==
    ProfileAnalysed =>
        /\ result.data.activity_pattern # "inactive"
        /\ result.data.activity_pattern =
               IF Get(input, "posts", <<>>) = <<>> THEN "unknown"
               ELSE ActivityTier(Len(input.posts))

\* a request with an empty post list, answered with unknown
EmptyPostListUnknown ==
    /\ ProfileAnalysed
    /\ "posts" \in DOMAIN input
    /\ input.posts = <<>>
    /\ result.data.activity_pattern = "unknown"

\* a request without posts, answered with unknown
WithoutPostsUnknown ==
    /\ ProfileAnalysed
    /\ "posts" \notin DOMAIN input
    /\ result.data.activity_pattern = "unknown"

\* a request with 51 posts, answered with very_active
ManyPostsVeryActive ==
    /\ ProfileAnalysed
    /\ Len(Get(input, "posts", <<>>)) = 51
    /\ result.data.activity_pattern = "very_active"

====
